---- MODULE Spec2Model ----
(***************************************************************************)
(* Model of the request-dispatch layer of nomad-rs-api (src/lib.rs,        *)
(* src/option.rs) and of the endpoint methods that drive it.               *)
(*                                                                         *)
(* An Option<T> is a sequence of length at most one: <<>> is None and      *)
(* <<v>> is Some(v).  A HashMap is a function; the order in which the code *)
(* iterates over it is an input of the operator that iterates.             *)
(***************************************************************************)
EXTENDS Integers, Sequences, FiniteSets, TLC

VARIABLES config, pc, call, base, applied, req, sent, response, result, executed, env, calls,
          listed, chain

vars ==
  <<config, pc, call, base, applied, req, sent, response, result, executed, env, calls,
    listed, chain>>

(***************************************************************************)
(* Bounds                                                                  *)
(***************************************************************************)
\* the largest number of fields present in one options value
MaxPresent == 3

\* the largest number of elements of a list sent by the server
MaxList == 3

\* the number of calls in flight at once on one client
NumCalls == 2

(***************************************************************************)
(* Option helpers                                                          *)
(***************************************************************************)
None == <<>>
Some(v) == <<v>>
IsSome(o) == Len(o) = 1

\* all orders in which a HashMap with key set S can be iterated
IterOrders(S) == {s \in [1..Cardinality(S) -> S] : \A i, j \in 1..Cardinality(S) : s[i] = s[j] => i = j}

(***************************************************************************)
(* src/lib.rs: Config                                                      *)
(***************************************************************************)
Config_default == [address |-> "http://127.0.0.1:4646", region |-> "global", token |-> None]

NOMAD_ENV_VAR_ADDRESS == "NOMAD_ADDRESS"
NOMAD_ENV_VAR_REGION == "NOMAD_REGION"
NOMAD_ENV_VAR_TOKEN == "NOMAD_TOKEN"

\* an environment variable of the process: unset, set to bytes that are not
\* valid Unicode, or set to a string
Unset == [set |-> FALSE, unicode |-> FALSE, value |-> ""]
NotUnicode == [set |-> TRUE, unicode |-> FALSE, value |-> "<ff fe>"]
Unicode(v) == [set |-> TRUE, unicode |-> TRUE, value |-> v]

NoEnv ==
  (NOMAD_ENV_VAR_ADDRESS :> Unset) @@ (NOMAD_ENV_VAR_REGION :> Unset)
    @@ (NOMAD_ENV_VAR_TOKEN :> Unset)

Envs ==
  { (NOMAD_ENV_VAR_ADDRESS :> a) @@ (NOMAD_ENV_VAR_REGION :> r) @@ (NOMAD_ENV_VAR_TOKEN :> t) :
      a \in {Unset, NotUnicode, Unicode("http://nomad.example:4646"), Unicode("")},
      r \in {Unset, NotUnicode, Unicode("eu"), Unicode("")},
      t \in {Unset, NotUnicode, Unicode("secret"), Unicode("")} }

\* std::env::var: Err when the variable is unset or is not valid Unicode
env_var(e, name) ==
  IF e[name].set /\ e[name].unicode
    THEN [ok |-> TRUE, value |-> e[name].value]
    ELSE [ok |-> FALSE, value |-> ""]

\* Result::unwrap_or
unwrap_or(res, dflt) == IF res.ok THEN res.value ELSE dflt

\* Result::map_or(default, Some)
map_or_Some(res, dflt) == IF res.ok THEN Some(res.value) ELSE dflt

\* variant: the token is read from the variable of the region
Config_from_env_token_of_region(e) ==
  [address |-> unwrap_or(env_var(e, NOMAD_ENV_VAR_ADDRESS), Config_default.address),
   region |-> unwrap_or(env_var(e, NOMAD_ENV_VAR_REGION), Config_default.region),
   token |-> map_or_Some(env_var(e, NOMAD_ENV_VAR_REGION), Config_default.token)]

\* Config::from_env
Config_from_env(e) ==
  [address |-> unwrap_or(env_var(e, NOMAD_ENV_VAR_ADDRESS), Config_default.address),
   region |-> unwrap_or(env_var(e, NOMAD_ENV_VAR_REGION), Config_default.region),
   token |-> map_or_Some(env_var(e, NOMAD_ENV_VAR_TOKEN), Config_default.token)]

Configs ==
  { Config_default,
    [address |-> "http://localhost:4646", region |-> "global", token |-> None],
    [address |-> "http://localhost:4646", region |-> "global", token |-> Some("root")],
    [address |-> "http://localhost:4646", region |-> "eu", token |-> Some("root")],
    [address |-> "not a url", region |-> "global", token |-> Some("root")] }

(***************************************************************************)
(* reqwest::RequestBuilder as the code uses it                             *)
(***************************************************************************)
\* the RequestBuilder whose inner request is Err: every later call is a no-op
ErrRequest(msg) ==
  [ok |-> FALSE, err |-> msg, method |-> "", path |-> "", query |-> <<>>, headers |-> <<>>,
   body |-> None]

\* Url::parse of address ++ path succeeds and the URL has a host
ValidUrl(address) == address \in {"http://127.0.0.1:4646", "http://localhost:4646"}

\* HeaderName::try_from: header names are tokens, stored in lower case
ValidHeaderName(k) == k \notin {"", "bad name"}

HeaderNameOf(k) ==
  CASE k = "X-Nomad-Token" -> "x-nomad-token"
    [] k = "x-nomad-token" -> "x-nomad-token"
    [] k = "X-Custom" -> "x-custom"
    [] k = "User-Agent" -> "user-agent"
    [] OTHER -> k

\* HeaderValue::try_from: no control characters
ValidHeaderValue(v) == v \notin {"bad\nvalue"}

\* application/x-www-form-urlencoded byte serialisation of a key or value
UrlEncode(s) ==
  CASE s = "a b" -> "a+b"
    [] s = "k=v&x" -> "k%3Dv%26x"
    [] OTHER -> s

\* http_client.request(method, url); path is the endpoint's path and the
\* query pairs embedded in it after '?'
http_request(method, address, path) ==
  IF ValidUrl(address)
    THEN [ok |-> TRUE, err |-> "", method |-> method, path |-> path.path, query |-> path.query,
          headers |-> <<>>, body |-> None]
    ELSE ErrRequest("builder error: relative URL without a base")

\* variant: a pair replaces the pairs already present under the same key
query_replace(r, k, v) ==
  IF r.ok THEN [r EXCEPT !.query = Append(SelectSeq(@, LAMBDA p : p[1] # k), <<k, v>>)] ELSE r

\* RequestBuilder::query with one pair: appends to the URL's query
query(r, k, v) == IF r.ok THEN [r EXCEPT !.query = Append(@, <<k, v>>)] ELSE r

\* RequestBuilder::header: appends a value to the header map, or turns the
\* builder into an error when the name or the value is not valid
header(r, k, v) ==
  IF ~r.ok THEN r
  ELSE IF ~ValidHeaderName(k) THEN ErrRequest("builder error: invalid HTTP header name")
  ELSE IF ~ValidHeaderValue(v) THEN ErrRequest("builder error: failed to parse header value")
  ELSE [r EXCEPT !.headers = Append(@, <<HeaderNameOf(k), v>>)]

\* RequestBuilder::json: sets the body and the content type when none is set
json(r, value) ==
  IF ~r.ok THEN r
  ELSE LET hasCT == \E i \in 1..Len(r.headers) : r.headers[i][1] = "content-type"
           hs == IF hasCT THEN r.headers ELSE Append(r.headers, <<"content-type", "application/json">>)
       IN [r EXCEPT !.headers = hs, !.body = Some(value)]

\* Nomad::new: the product identifier given to ClientBuilder::user_agent
USER_AGENT == "nomad-rs-api/0.0.1-alpha.1"

\* the default headers of the http_client that Nomad::new builds
default_headers == << <<"user-agent", USER_AGENT>> >>

\* variant: the default headers are added to every request
execute_request_always_default(r) ==
  IF ~r.ok THEN r ELSE [r EXCEPT !.headers = @ \o default_headers]

\* Client::execute: the request as it goes out; a default header is added
\* only under a name for which the request has no value
execute_request(r) ==
  IF ~r.ok THEN r
  ELSE LET vacant(d) == \A i \in 1..Len(r.headers) : r.headers[i][1] # d[1]
       IN [r EXCEPT !.headers = @ \o SelectSeq(default_headers, vacant)]

\* the values a request carries for one header name, in the order written
HeaderValues(r, name) == SelectSeq(r.headers, LAMBDA h : h[1] = name)

\* the query string of the URL
RECURSIVE QueryString(_)
QueryString(q) ==
  IF Len(q) = 0 THEN ""
  ELSE LET pair == UrlEncode(q[Len(q)][1]) \o "=" \o UrlEncode(q[Len(q)][2])
       IN IF Len(q) = 1 THEN pair ELSE QueryString(SubSeq(q, 1, Len(q) - 1)) \o "&" \o pair

(***************************************************************************)
(* to_string of the option values                                          *)
(***************************************************************************)
Digit(d) ==
  CASE d = 0 -> "0" [] d = 1 -> "1" [] d = 2 -> "2" [] d = 3 -> "3" [] d = 4 -> "4"
    [] d = 5 -> "5" [] d = 6 -> "6" [] d = 7 -> "7" [] d = 8 -> "8" [] d = 9 -> "9"

\* a u64 is kept as three limbs of nine decimal digits, the most
\* significant first: <<a, b, c>> is a * 10^18 + b * 10^9 + c
U64(n) == <<0, n \div 1000000000, n % 1000000000>>

\* u64::MAX, 2^64 - 1
U64_MAX == <<18, 446744073, 709551615>>

\* the successor of a u64 below 2 * 10^18
U64_succ(v) ==
  IF v[3] + 1 = 1000000000 THEN <<v[1], v[2] + 1, 0>> ELSE <<v[1], v[2], v[3] + 1>>

\* the digits of a number, without leading zeros
RECURSIVE Decimal(_)
Decimal(n) == IF n < 10 THEN Digit(n) ELSE Decimal(n \div 10) \o Digit(n % 10)

\* the last width digits of a number, with leading zeros
RECURSIVE Padded(_, _)
Padded(n, width) ==
  IF width = 0 THEN "" ELSE Padded(n \div 10, width - 1) \o Digit(n % 10)

\* <u64 as Display>::fmt: the decimal digits, no sign, no leading zeros
u64_to_string(v) ==
  IF v[1] > 0 THEN Decimal(v[1]) \o Padded(v[2], 9) \o Padded(v[3], 9)
  ELSE IF v[2] > 0 THEN Decimal(v[2]) \o Padded(v[3], 9)
  ELSE Decimal(v[3])

\* i32::unsigned_abs of a negative number, as the u64 that is formatted
unsigned_abs(n) == U64_succ(U64(0 - (n + 1)))

\* variant: the sign of a negative number is not written
i32_to_string_without_sign(n) ==
  IF n < 0 THEN u64_to_string(unsigned_abs(n)) ELSE u64_to_string(U64(n))

\* <i32 as Display>::fmt: a minus sign for a negative number, then the
\* digits of its absolute value
i32_to_string(n) ==
  IF n < 0 THEN "-" \o u64_to_string(unsigned_abs(n)) ELSE u64_to_string(U64(n))

bool_to_string(b) == IF b THEN "true" ELSE "false"

(***************************************************************************)
(* src/lib.rs: build_request                                               *)
(***************************************************************************)
\* variant: the default region is left to the options
build_request_without_region(cfg, method, path) ==
  LET request == http_request(method, cfg.address, path)
  IN IF IsSome(cfg.token) THEN header(request, "X-Nomad-Token", cfg.token[1]) ELSE request

\* variant: the token is also sent as a pair of the query
build_request_token_in_query(cfg, method, path) ==
  LET request == http_request(method, cfg.address, path)
      request1 == query(request, "region", cfg.region)
      request2 == IF IsSome(cfg.token) THEN query(request1, "token", cfg.token[1])
                                       ELSE request1
  IN IF IsSome(cfg.token) THEN header(request2, "X-Nomad-Token", cfg.token[1]) ELSE request2

build_request(cfg, method, path) ==
  LET request == http_request(method, cfg.address, path)
      request1 == query(request, "region", cfg.region)
  IN IF IsSome(cfg.token) THEN header(request1, "X-Nomad-Token", cfg.token[1]) ELSE request1

(***************************************************************************)
(* src/option.rs: QueryOptions and WriteOptions                            *)
(***************************************************************************)
QueryOptions_new ==
  [region |-> None, namespace |-> None, allow_stale |-> None, wait_index |-> None,
   wait_time |-> None, prefix |-> None, params |-> None, headers |-> None,
   auth_token |-> None, filter |-> None, per_page |-> None, next_token |-> None,
   reverse |-> None]

\* #[derive(Default)]: every Option field defaults to None
QueryOptions_default ==
  [region |-> None, namespace |-> None, allow_stale |-> None, wait_index |-> None,
   wait_time |-> None, prefix |-> None, params |-> None, headers |-> None,
   auth_token |-> None, filter |-> None, per_page |-> None, next_token |-> None,
   reverse |-> None]

WriteOptions_new ==
  [region |-> None, namespace |-> None, auth_token |-> None, headers |-> None,
   idempotency_token |-> None]

WriteOptions_default ==
  [region |-> None, namespace |-> None, auth_token |-> None, headers |-> None,
   idempotency_token |-> None]

\* Option::unwrap_or_default at the endpoints
unwrap_or_default(o, dflt) == IF IsSome(o) THEN o[1] ELSE dflt

\* the values the inputs are drawn from
OptSet(S) == {None} \cup {Some(v) : v \in S}

ParamMaps ==
  { ("index" :> "7"),
    ("namespace" :> "other") @@ ("k=v&x" :> "a b") }

HeaderMaps ==
  { ("X-Custom" :> "1"),
    ("X-Nomad-Token" :> "map-token"),
    ("X-Nomad-Token" :> "map-token") @@ ("x-nomad-token" :> "lower-token"),
    ("bad name" :> "1") @@ ("X-Custom" :> "1"),
    ("User-Agent" :> "custom-agent/1.0") }

AuthTokens == {"override", "bad\nvalue"}

PresentFields(o) == {f \in DOMAIN o : IsSome(o[f])}

AllQueryOptions ==
  [region : OptSet({"eu-west"}), namespace : OptSet({"prod"}),
   allow_stale : OptSet(BOOLEAN), wait_index : OptSet({U64(0), U64(42)}), wait_time : OptSet({U64(5)}),
   prefix : OptSet({"a b"}), params : OptSet(ParamMaps), headers : OptSet(HeaderMaps),
   auth_token : OptSet(AuthTokens), filter : OptSet({"Status"}),
   per_page : OptSet({10, -1}), next_token : OptSet({"tok"}), reverse : OptSet({TRUE})]

AllWriteOptions ==
  [region : OptSet({"eu-west"}), namespace : OptSet({"prod"}),
   auth_token : OptSet(AuthTokens), headers : OptSet(HeaderMaps),
   idempotency_token : OptSet({"idem-1"})]

QueryOptionsSet == {o \in AllQueryOptions : Cardinality(PresentFields(o)) <= MaxPresent}

WriteOptionsSet == {o \in AllWriteOptions : Cardinality(PresentFields(o)) <= MaxPresent}

\* the iteration orders of an Option<HashMap>
MapOrders(om) == IF IsSome(om) THEN IterOrders(DOMAIN om[1]) ELSE {<<>>}

(***************************************************************************)
(* src/lib.rs: set_request_query_options, set_request_write_options        *)
(***************************************************************************)
\* variant: an entry of the map takes the place of the pairs already on the
\* request under its key
query_all_replacing(r, map, order) ==
  IF ~r.ok THEN r
  ELSE [r EXCEPT !.query = SelectSeq(@, LAMBDA p : p[1] \notin DOMAIN map)
                             \o [i \in 1..Len(order) |-> <<order[i], map[order[i]]>>]]

\* for (key, value) in params.iter() { request = request.query(..) }
RECURSIVE query_all(_, _, _)
query_all(r, map, order) ==
  IF Len(order) = 0 THEN r
  ELSE query_all(query(r, Head(order), map[Head(order)]), map, Tail(order))

\* for (key, value) in headers.iter() { request = request.header(key, value) }
RECURSIVE header_all(_, _, _)
header_all(r, map, order) ==
  IF Len(order) = 0 THEN r
  ELSE header_all(header(r, Head(order), map[Head(order)]), map, Tail(order))

\* x.to_string() under `if let Some(x) = opts.field`, by the type of the field
some_bool_to_string(o) == IF IsSome(o) THEN Some(bool_to_string(o[1])) ELSE None
some_u64_to_string(o) == IF IsSome(o) THEN Some(u64_to_string(o[1])) ELSE None
some_i32_to_string(o) == IF IsSome(o) THEN Some(i32_to_string(o[1])) ELSE None

\* variant: an absent field is sent with the default value of its type
query_some_or_default(r, key, o) ==
  IF IsSome(o) THEN query(r, key, o[1]) ELSE query(r, key, "")

\* if let Some(ref x) = opts.field { request = request.query(&[(key, x)]) }
query_some(r, key, o) == IF IsSome(o) THEN query(r, key, o[1]) ELSE r

\* if let Some(ref auth_token) = opts.auth_token { request = request.header(key, auth_token) }
header_some(r, key, o) == IF IsSome(o) THEN header(r, key, o[1]) ELSE r

\* variant: the pagination fields are applied before the generic params
set_request_query_options_pagination_first(request, opts, pOrder, hOrder) ==
  LET r1 == query_some(request, "region", opts.region)
      r2 == query_some(r1, "namespace", opts.namespace)
      r3 == query_some(r2, "allow_stale", some_bool_to_string(opts.allow_stale))
      r4 == query_some(r3, "wait_index", some_u64_to_string(opts.wait_index))
      r5 == query_some(r4, "wait_time", some_u64_to_string(opts.wait_time))
      r6 == query_some(r5, "prefix", opts.prefix)
      r7 == query_some(r6, "filter", opts.filter)
      r8 == query_some(r7, "per_page", some_i32_to_string(opts.per_page))
      r9 == query_some(r8, "next_token", opts.next_token)
      r10 == query_some(r9, "reverse", some_bool_to_string(opts.reverse))
      r11 == IF IsSome(opts.params) THEN query_all(r10, opts.params[1], pOrder) ELSE r10
      r12 == IF IsSome(opts.headers) THEN header_all(r11, opts.headers[1], hOrder) ELSE r11
  IN header_some(r12, "X-Nomad-Token", opts.auth_token)

set_request_query_options(request, opts, pOrder, hOrder) ==
  LET r1 == query_some(request, "region", opts.region)
      r2 == query_some(r1, "namespace", opts.namespace)
      r3 == query_some(r2, "allow_stale", some_bool_to_string(opts.allow_stale))
      r4 == query_some(r3, "wait_index", some_u64_to_string(opts.wait_index))
      r5 == query_some(r4, "wait_time", some_u64_to_string(opts.wait_time))
      r6 == query_some(r5, "prefix", opts.prefix)
      r7 == IF IsSome(opts.params) THEN query_all(r6, opts.params[1], pOrder) ELSE r6
      r8 == IF IsSome(opts.headers) THEN header_all(r7, opts.headers[1], hOrder) ELSE r7
      r9 == header_some(r8, "X-Nomad-Token", opts.auth_token)
      r10 == query_some(r9, "filter", opts.filter)
      r11 == query_some(r10, "per_page", some_i32_to_string(opts.per_page))
      r12 == query_some(r11, "next_token", opts.next_token)
  IN query_some(r12, "reverse", some_bool_to_string(opts.reverse))

\* variant: the option pairs replace the query the request was built with
set_request_write_options_resetting_query(request, opts, hOrder) ==
  LET r0 == IF request.ok THEN [request EXCEPT !.query = <<>>] ELSE request
      r1 == query_some(r0, "region", opts.region)
      r2 == query_some(r1, "namespace", opts.namespace)
      r3 == header_some(r2, "X-Nomad-Token", opts.auth_token)
      r4 == IF IsSome(opts.headers) THEN header_all(r3, opts.headers[1], hOrder) ELSE r3
  IN query_some(r4, "idempotency_token", opts.idempotency_token)

set_request_write_options(request, opts, hOrder) ==
  LET r1 == query_some(request, "region", opts.region)
      r2 == query_some(r1, "namespace", opts.namespace)
      r3 == header_some(r2, "X-Nomad-Token", opts.auth_token)
      r4 == IF IsSome(opts.headers) THEN header_all(r3, opts.headers[1], hOrder) ELSE r3
  IN query_some(r4, "idempotency_token", opts.idempotency_token)

(***************************************************************************)
(* src/lib.rs: ClientError and the results of a call                       *)
(***************************************************************************)
NoResult == [tag |-> "none", code |-> 0, text |-> "", value |-> None]
Ok(v) == [tag |-> "Ok", code |-> 0, text |-> "", value |-> Some(v)]
RequestCreationError(msg) == [tag |-> "RequestCreationError", code |-> 0, text |-> msg, value |-> None]
DeserializationError(msg) == [tag |-> "DeserializationError", code |-> 0, text |-> msg, value |-> None]
ServerError(code, body) == [tag |-> "ServerError", code |-> code, text |-> body, value |-> None]
NetworkError(msg) == [tag |-> "NetworkError", code |-> 0, text |-> msg, value |-> None]

\* src/job.rs: the error Endpoint::plan builds for a job without an id
InvalidInputError(msg) == [tag |-> "InvalidInputError", code |-> 0, text |-> msg, value |-> None]

ClientError == {"RequestCreationError", "DeserializationError", "ServerError", "NetworkError"}

Unit == "()"

(***************************************************************************)
(* The transport and the response bodies                                   *)
(***************************************************************************)
StatusCodes == {101, 200, 204, 299, 300, 404, 500}

\* StatusCode::is_success
is_success(status) == 300 > status /\ status >= 200

\* StatusCode::as_u16
as_u16(status) == status % 65536

TransportOutcomes ==
  {[ok |-> TRUE, status |-> s, err |-> ""] : s \in StatusCodes}
    \cup {[ok |-> FALSE, status |-> 0, err |-> m] : m \in {"connection refused", "operation timed out"}}

BodyNamespace == "{\"Name\":\"prod\",\"Description\":\"production\"}"
BodyNamespaceNoName == "{\"Description\":\"production\"}"
BodyRegions == "[\"global\",\"eu\"]"
BodyText == "job not found"
BodyJobPlan == "{\"JobModifyIndex\":7,\"CreatedEvals\":[]}"
BodyJobDeregister == "{\"EvalID\":\"e2\",\"EvalCreateIndex\":13,\"JobModifyIndex\":14}"
BodyEvaluation == "{\"ID\":\"e1\",\"Priority\":50,\"Type\":\"service\",\"TriggeredBy\":\"job-register\",\"Namespace\":\"default\",\"JobID\":\"web\",\"Status\":\"complete\",\"SnapshotIndex\":11,\"CreateIndex\":10,\"ModifyIndex\":12,\"CreateTime\":1,\"ModifyTime\":2}"
BodyEvaluationNoJobID == "{\"ID\":\"e1\",\"Priority\":50,\"Type\":\"service\",\"TriggeredBy\":\"job-register\",\"Namespace\":\"default\",\"Status\":\"complete\",\"SnapshotIndex\":11,\"CreateIndex\":10,\"ModifyIndex\":12,\"CreateTime\":1,\"ModifyTime\":2}"

Bodies ==
  {BodyNamespace, BodyNamespaceNoName, BodyRegions, BodyText, "", BodyEvaluation,
   BodyEvaluationNoJobID, BodyJobPlan, BodyJobDeregister}

\* the outcomes of reading a response body to its end
BodyReads ==
  {[ok |-> TRUE, body |-> b, err |-> ""] : b \in Bodies}
    \cup {[ok |-> FALSE, body |-> "", err |-> "error decoding response body"]}

EvaluationFields ==
  ("ID" :> "e1") @@ ("Priority" :> 50) @@ ("Type" :> "service")
    @@ ("TriggeredBy" :> "job-register") @@ ("Namespace" :> "default") @@ ("JobID" :> "web")
    @@ ("Status" :> "complete") @@ ("SnapshotIndex" :> 11) @@ ("CreateIndex" :> 10)
    @@ ("ModifyIndex" :> 12) @@ ("CreateTime" :> 1) @@ ("ModifyTime" :> 2)

JobPlanFields == ("JobModifyIndex" :> 7) @@ ("CreatedEvals" :> <<>>)

JobDeregisterFields ==
  ("EvalID" :> "e2") @@ ("EvalCreateIndex" :> 13) @@ ("JobModifyIndex" :> 14)

\* serde_json's reading of a body: the JSON value, or an error
ParseJson(text) ==
  CASE text = BodyNamespace ->
         [kind |-> "object", fields |-> ("Name" :> "prod") @@ ("Description" :> "production"),
          items |-> <<>>]
    [] text = BodyNamespaceNoName ->
         [kind |-> "object", fields |-> ("Description" :> "production"), items |-> <<>>]
    [] text = BodyRegions -> [kind |-> "array", fields |-> <<>>, items |-> <<"global", "eu">>]
    [] text = BodyEvaluation -> [kind |-> "object", fields |-> EvaluationFields, items |-> <<>>]
    [] text = BodyJobPlan -> [kind |-> "object", fields |-> JobPlanFields, items |-> <<>>]
    [] text = BodyJobDeregister ->
         [kind |-> "object", fields |-> JobDeregisterFields, items |-> <<>>]
    [] text = BodyEvaluationNoJobID ->
         [kind |-> "object",
          fields |-> [t \in (DOMAIN EvaluationFields) \ {"JobID"} |-> EvaluationFields[t]],
          items |-> <<>>]
    [] OTHER -> [kind |-> "invalid", fields |-> <<>>, items |-> <<>>]

\* variant: every field of every response type is optional
RequiredTags_all_optional(T) == {}

\* the wire tags of the fields that are not Option in each response type
RequiredTags(T) ==
  CASE T = "Namespace" -> {"Name"}
    [] T = "JobPlanResponse" -> {"JobModifyIndex", "CreatedEvals"}
    [] T = "JobDeregisterResponse" -> {"EvalID", "EvalCreateIndex", "JobModifyIndex"}
    [] T = "Evaluation" ->
         {"ID", "Priority", "Type", "TriggeredBy", "Namespace", "JobID", "Status",
          "SnapshotIndex", "CreateIndex", "ModifyIndex", "CreateTime", "ModifyTime"}
    [] OTHER -> {}

\* serde's Deserialize for the response types of the modelled endpoints
from_json(T, text) ==
  LET v == ParseJson(text)
  IN CASE v.kind = "invalid" ->
            [ok |-> FALSE, value |-> None, err |-> "error decoding response body: expected value"]
       [] T = "VecString" ->
            IF v.kind = "array"
              THEN [ok |-> TRUE, value |-> Some(v.items), err |-> ""]
              ELSE [ok |-> FALSE, value |-> None,
                    err |-> "error decoding response body: invalid type"]
       [] OTHER ->
            IF v.kind # "object"
              THEN [ok |-> FALSE, value |-> None,
                    err |-> "error decoding response body: invalid type"]
            ELSE IF ~(RequiredTags(T) \subseteq DOMAIN v.fields)
              THEN [ok |-> FALSE, value |-> None,
                    err |-> "error decoding response body: missing field"]
            ELSE [ok |-> TRUE, value |-> Some(v.fields), err |-> ""]

\* Response::json::<T>: read the whole body, then deserialize it
response_json(T, read) ==
  IF ~read.ok THEN [ok |-> FALSE, value |-> None, err |-> read.err] ELSE from_json(T, read.body)

\* Response::text
response_text(read) == read

(***************************************************************************)
(* src/lib.rs: send_with_response, send_without_response                   *)
(* Each function is cut at its await points.                               *)
(***************************************************************************)
\* what the call has seen of the exchange: the transport's error, or the
\* response's status, and the body read if one was made
NoResponse ==
  [received |-> FALSE, status |-> 0, read |-> None, json |-> FALSE, failed |-> None]

\* variant: the build error is noted but the request is executed all the same
send_with_response_build_unchecked(r) ==
  IF ~r.ok
    THEN [pc |-> "done", result |-> RequestCreationError(r.err), executed |-> 1]
    ELSE [pc |-> "executing", result |-> NoResult, executed |-> 1]

\* req.build() and the start of http_client.execute(req)
send_with_response_build(r) ==
  IF ~r.ok
    THEN [pc |-> "done", result |-> RequestCreationError(r.err), executed |-> 0]
    ELSE [pc |-> "executing", result |-> NoResult, executed |-> 1]

\* variant: a request that does not build is reported as a network failure
send_without_response_build_as_network(r) ==
  IF ~r.ok
    THEN [pc |-> "done", result |-> NetworkError(r.err), executed |-> 0]
    ELSE [pc |-> "executing", result |-> NoResult, executed |-> 1]

\* match req.build(), in send_without_response
send_without_response_build(r) ==
  IF ~r.ok
    THEN [pc |-> "done", result |-> RequestCreationError(r.err), executed |-> 0]
    ELSE [pc |-> "executing", result |-> NoResult, executed |-> 1]

\* variant: the body of every response is deserialized, whatever the status
send_with_response_executed_any_status(outcome) ==
  IF outcome.ok
    THEN [pc |-> "reading_json", result |-> NoResult, executed |-> 0]
    ELSE [pc |-> "done", result |-> NetworkError(outcome.err), executed |-> 0]

\* variant: 404 is answered at once, as a remote error without body text
send_with_response_executed_not_found(outcome) ==
  IF outcome.ok
    THEN IF is_success(outcome.status)
           THEN [pc |-> "reading_json", result |-> NoResult, executed |-> 0]
           ELSE IF outcome.status = 404
             THEN [pc |-> "done", result |-> ServerError(404, ""), executed |-> 0]
             ELSE [pc |-> "reading_text", result |-> NoResult, executed |-> 0]
    ELSE [pc |-> "done", result |-> NetworkError(outcome.err), executed |-> 0]

\* variant: a transport failure is answered by one more attempt
send_with_response_executed_retry(outcome) ==
  IF outcome.ok
    THEN IF is_success(outcome.status)
           THEN [pc |-> "reading_json", result |-> NoResult, executed |-> 0]
           ELSE [pc |-> "reading_text", result |-> NoResult, executed |-> 0]
    ELSE IF executed < 2
           THEN [pc |-> "executing", result |-> NoResult, executed |-> 1]
           ELSE [pc |-> "done", result |-> NetworkError(outcome.err), executed |-> 0]

\* match self.http_client.execute(req).await
send_with_response_executed(outcome) ==
  IF outcome.ok
    THEN IF is_success(outcome.status)
           THEN [pc |-> "reading_json", result |-> NoResult, executed |-> 0]
           ELSE [pc |-> "reading_text", result |-> NoResult, executed |-> 0]
    ELSE [pc |-> "done", result |-> NetworkError(outcome.err), executed |-> 0]

\* variant: a transport failure starts the exchange again
send_without_response_executed_retry_forever(outcome) ==
  IF outcome.ok
    THEN IF is_success(outcome.status)
           THEN [pc |-> "done", result |-> Ok(Unit), executed |-> 0]
           ELSE [pc |-> "reading_text", result |-> NoResult, executed |-> 0]
    ELSE [pc |-> "executing", result |-> NoResult, executed |-> 1]

\* variant: a transport failure is reported without the transport's message
send_without_response_executed_generic_message(outcome) ==
  IF outcome.ok
    THEN IF is_success(outcome.status)
           THEN [pc |-> "done", result |-> Ok(Unit), executed |-> 0]
           ELSE [pc |-> "reading_text", result |-> NoResult, executed |-> 0]
    ELSE [pc |-> "done", result |-> NetworkError("network error"), executed |-> 0]

\* variant: the body of a 2xx response is read before success is returned
send_without_response_executed_reading_success(outcome) ==
  IF outcome.ok
    THEN [pc |-> "reading_text", result |-> NoResult, executed |-> 0]
    ELSE [pc |-> "done", result |-> NetworkError(outcome.err), executed |-> 0]

\* match self.http_client.execute(req).await, in send_without_response
send_without_response_executed(outcome) ==
  IF outcome.ok
    THEN IF is_success(outcome.status)
           THEN [pc |-> "done", result |-> Ok(Unit), executed |-> 0]
           ELSE [pc |-> "reading_text", result |-> NoResult, executed |-> 0]
    ELSE [pc |-> "done", result |-> NetworkError(outcome.err), executed |-> 0]

\* variant: a body that does not deserialize is reported like a failed read
send_with_response_json_as_network(T, read) ==
  LET parsed == response_json(T, read)
  IN IF parsed.ok THEN Ok(parsed.value[1]) ELSE NetworkError(parsed.err)

\* match response.json::<TResponse>().await
send_with_response_json(T, read) ==
  LET parsed == response_json(T, read)
  IN IF parsed.ok THEN Ok(parsed.value[1]) ELSE DeserializationError(parsed.err)

\* match response.text().await
send_with_response_text(status, read) ==
  LET text == response_text(read)
  IN IF text.ok THEN ServerError(as_u16(status), text.body) ELSE NetworkError(text.err)

\* variant: a body that cannot be read is reported as an empty body text
send_without_response_text_empty_body(status, read) ==
  LET text == response_text(read)
  IN ServerError(as_u16(status), text.body)

\* match response.text().await, in send_without_response
send_without_response_text(status, read) ==
  LET text == response_text(read)
  IN IF text.ok THEN ServerError(as_u16(status), text.body) ELSE NetworkError(text.err)

(***************************************************************************)
(* State                                                                   *)
(***************************************************************************)
NoRequest == ErrRequest("no request")

NoCall ==
  [endpoint |-> "", send |-> "", T |-> "", path |-> None, kind |-> "", opts |-> None,
   pOrder |-> <<>>, hOrder |-> <<>>]

\* the calls made concurrently on one client; every call has its own
\* future, which holds its request, its response and its result
CallIds == 1..NumCalls

IdleCall ==
  [pc |-> "idle", args |-> None, sent |-> NoRequest, response |-> NoResponse,
   result |-> NoResult]

NoCalls == [c \in CallIds |-> IdleCall]

Init ==
  /\ config \in Configs
  /\ pc = "idle"
  /\ call = NoCall
  /\ base = NoRequest
  /\ applied = NoRequest
  /\ req = NoRequest
  /\ sent = NoRequest
  /\ response = NoResponse
  /\ result = NoResult
  /\ executed = 0
  /\ env = NoEnv
  /\ calls = NoCalls
  /\ listed = NoResult
  /\ chain = <<>>

\* the synchronous part of an endpoint method: b is the output of
\* build_request, a the output of the option applier, r the request handed
\* to the send function
Begin(endpoint, send, T, path, kind, opts, pOrder, hOrder, b, a, r) ==
  LET st == IF send = "with" THEN send_with_response_build(r)
                             ELSE send_without_response_build(r)
  IN /\ call' = [endpoint |-> endpoint, send |-> send, T |-> T, path |-> Some(path),
                 kind |-> kind, opts |-> Some(opts), pOrder |-> pOrder, hOrder |-> hOrder]
     /\ base' = b
     /\ applied' = a
     /\ req' = r
     /\ pc' = st.pc
     /\ result' = st.result
     /\ executed' = executed + st.executed
     /\ sent' = IF st.executed = 1 THEN execute_request(r) ELSE NoRequest
     /\ response' = NoResponse
     /\ UNCHANGED <<config, env, calls, listed, chain>>

\* a path as the URL parser splits it: the path and the query pairs after '?'
Path(p, q) == [path |-> p, query |-> q]

(***************************************************************************)
(* Endpoint methods                                                        *)
(***************************************************************************)
\* src/region.rs: Endpoint::list
region_list ==
  /\ pc = "idle"
  /\ LET path == Path("/v1/regions", <<>>)
         b == build_request(config, "GET", path)
     IN Begin("region_list", "with", "VecString", path, "none", <<>>, <<>>, <<>>, b, b, b)

\* src/namespace.rs: Endpoint::get
namespace_get ==
  /\ pc = "idle"
  /\ \E name \in {"default"}, o \in OptSet(QueryOptionsSet) :
       LET opts == unwrap_or_default(o, QueryOptions_default)
           path == Path("/v1/namespace/" \o name, <<>>)
           b == build_request(config, "GET", path)
       IN \E pOrder \in MapOrders(opts.params), hOrder \in MapOrders(opts.headers) :
            LET a == set_request_query_options(b, opts, pOrder, hOrder)
            IN Begin("namespace_get", "with", "Namespace", path, "query", opts, pOrder,
                     hOrder, b, a, a)

\* src/evaluation.rs: Nomad::evaluation_get
evaluation_get ==
  /\ pc = "idle"
  /\ \E evaluation_id \in {"e1"}, o \in OptSet(QueryOptionsSet) :
       LET opts == unwrap_or_default(o, QueryOptions_default)
           path == Path("/v1/evaluation/" \o evaluation_id, << <<"related", "true">> >>)
           b == build_request(config, "GET", path)
       IN \E pOrder \in MapOrders(opts.params), hOrder \in MapOrders(opts.headers) :
            LET a == set_request_query_options(b, opts, pOrder, hOrder)
            IN Begin("evaluation_get", "with", "Evaluation", path, "query", opts, pOrder,
                     hOrder, b, a, a)

\* src/namespace.rs: Endpoint::delete
namespace_delete ==
  /\ pc = "idle"
  /\ \E name \in {"default"}, o \in OptSet(WriteOptionsSet) :
       LET opts == unwrap_or_default(o, WriteOptions_default)
           path == Path("/v1/namespace/" \o name, <<>>)
           b == build_request(config, "DELETE", path)
       IN \E hOrder \in MapOrders(opts.headers) :
            LET a == set_request_write_options(b, opts, hOrder)
            IN Begin("namespace_delete", "without", "Unit", path, "write", opts, <<>>,
                     hOrder, b, a, a)

\* src/namespace.rs: Endpoint::create
namespace_create ==
  /\ pc = "idle"
  /\ \E namespace \in {"prod"}, o \in OptSet(WriteOptionsSet) :
       LET opts == unwrap_or_default(o, WriteOptions_default)
           path == Path("/v1/namespace", <<>>)
           b == build_request(config, "PUT", path)
       IN \E hOrder \in MapOrders(opts.headers) :
            LET a == set_request_write_options(b, opts, hOrder)
            IN Begin("namespace_create", "without", "Unit", path, "write", opts, <<>>,
                     hOrder, b, a, json(a, namespace))

\* JobDeregisterRequest::new
JobDeregisterRequest_new(job_id) ==
  [job_id |-> job_id, purge |-> FALSE, global |-> FALSE, eval_priority |-> 0,
   no_shutdown_delay |-> FALSE]

\* src/job.rs: Endpoint::deregister
job_deregister ==
  /\ pc = "idle"
  /\ \E purge \in BOOLEAN, o \in OptSet(WriteOptionsSet) :
       LET job_deregister_request == [JobDeregisterRequest_new("web") EXCEPT !.purge = purge]
           opts == unwrap_or_default(o, WriteOptions_default)
           path == Path("/v1/job/" \o job_deregister_request.job_id,
                        << <<"purge", bool_to_string(job_deregister_request.purge)>>,
                           <<"global", bool_to_string(job_deregister_request.global)>>,
                           <<"eval_priority",
                             i32_to_string(job_deregister_request.eval_priority)>>,
                           <<"no_shutdown_delay",
                             bool_to_string(job_deregister_request.no_shutdown_delay)>> >>)
           b == build_request(config, "DELETE", path)
       IN \E hOrder \in MapOrders(opts.headers) :
            LET a == set_request_write_options(b, opts, hOrder)
            IN Begin("job_deregister", "with", "JobDeregisterResponse", path, "write", opts,
                     <<>>, hOrder, b, a, a)

\* variant: the id is looked at after a request has gone to the server
plan_without_id_after_sending ==
  [pc |-> "done", result |-> InvalidInputError("Job ID must be set"), executed |-> 1]

\* src/job.rs: Endpoint::plan, the None arm of the match on the job's id:
\* return Err(..) before any request is built
plan_without_id ==
  [pc |-> "done", result |-> InvalidInputError("Job ID must be set"), executed |-> 0]

\* src/job.rs: Endpoint::plan; id is the id field of the request's job
job_plan ==
  /\ pc = "idle"
  /\ \E id \in {None, Some("web")}, o \in OptSet(WriteOptionsSet) :
       IF ~IsSome(id)
         THEN /\ call' = [NoCall EXCEPT !.endpoint = "job_plan"]
              /\ pc' = plan_without_id.pc
              /\ result' = plan_without_id.result
              /\ executed' = executed + plan_without_id.executed
              /\ UNCHANGED <<config, base, applied, req, sent, response, env, calls, listed, chain>>
         ELSE LET opts == unwrap_or_default(o, WriteOptions_default)
                  path == Path("/v1/job/" \o id[1] \o "/plan", <<>>)
                  b == build_request(config, "POST", path)
              IN \E hOrder \in MapOrders(opts.headers) :
                   LET a == set_request_write_options(b, opts, hOrder)
                   IN Begin("job_plan", "with", "JobPlanResponse", path, "write", opts, <<>>,
                            hOrder, b, a, json(a, id[1]))

(***************************************************************************)
(* The await points of the send functions                                  *)
(***************************************************************************)
\* the request was moved into execute(); the options were dropped before
Consumed == [call EXCEPT !.opts = None, !.pOrder = <<>>, !.hOrder = <<>>]

\* http_client.execute(req).await completes in send_with_response
SendWithResponse_Executed ==
  /\ pc = "executing"
  /\ call.send = "with"
  /\ \E outcome \in TransportOutcomes :
       LET st == send_with_response_executed(outcome)
       IN /\ pc' = st.pc
          /\ result' = st.result
          /\ executed' = executed + st.executed
          /\ response' = [NoResponse EXCEPT !.received = outcome.ok,
                                            !.status = outcome.status,
                                            !.failed = IF outcome.ok THEN None
                                                                     ELSE Some(outcome.err)]
  /\ call' = Consumed
  /\ base' = NoRequest
  /\ applied' = NoRequest
  /\ req' = NoRequest
  /\ sent' = NoRequest
  /\ UNCHANGED <<config, env, calls, listed, chain>>

\* http_client.execute(req).await completes in send_without_response
SendWithoutResponse_Executed ==
  /\ pc = "executing"
  /\ call.send = "without"
  /\ \E outcome \in TransportOutcomes :
       LET st == send_without_response_executed(outcome)
       IN /\ pc' = st.pc
          /\ result' = st.result
          /\ executed' = executed + st.executed
          /\ response' = [NoResponse EXCEPT !.received = outcome.ok,
                                            !.status = outcome.status,
                                            !.failed = IF outcome.ok THEN None
                                                                     ELSE Some(outcome.err)]
  /\ call' = Consumed
  /\ base' = NoRequest
  /\ applied' = NoRequest
  /\ req' = NoRequest
  /\ sent' = NoRequest
  /\ UNCHANGED <<config, env, calls, listed, chain>>

\* response.json::<TResponse>().await completes
SendWithResponse_Json ==
  /\ pc = "reading_json"
  /\ call.send = "with"
  /\ \E read \in BodyReads :
       /\ result' = send_with_response_json(call.T, read)
       /\ response' = [response EXCEPT !.read = Some(read), !.json = TRUE]
  /\ pc' = "done"
  /\ UNCHANGED <<config, call, base, applied, req, sent, executed, env, calls, listed, chain>>

\* response.text().await completes in send_with_response
SendWithResponse_Text ==
  /\ pc = "reading_text"
  /\ call.send = "with"
  /\ \E read \in BodyReads :
       /\ result' = send_with_response_text(response.status, read)
       /\ response' = [response EXCEPT !.read = Some(read)]
  /\ pc' = "done"
  /\ UNCHANGED <<config, call, base, applied, req, sent, executed, env, calls, listed, chain>>

\* response.text().await completes in send_without_response
SendWithoutResponse_Text ==
  /\ pc = "reading_text"
  /\ call.send = "without"
  /\ \E read \in BodyReads :
       /\ result' = send_without_response_text(response.status, read)
       /\ response' = [response EXCEPT !.read = Some(read)]
  /\ pc' = "done"
  /\ UNCHANGED <<config, call, base, applied, req, sent, executed, env, calls, listed, chain>>

\* the result is handed to the caller; nothing of the call is retained
Return ==
  /\ pc = "done"
  /\ pc' = "idle"
  /\ call' = NoCall
  /\ base' = NoRequest
  /\ applied' = NoRequest
  /\ req' = NoRequest
  /\ sent' = NoRequest
  /\ response' = NoResponse
  /\ result' = NoResult
  /\ executed' = 0
  /\ UNCHANGED <<config, env, calls, listed, chain>>

Next ==
  \/ region_list
  \/ namespace_get
  \/ evaluation_get
  \/ namespace_delete
  \/ namespace_create
  \/ job_plan
  \/ job_deregister
  \/ SendWithResponse_Executed
  \/ SendWithoutResponse_Executed
  \/ SendWithResponse_Json
  \/ SendWithResponse_Text
  \/ SendWithoutResponse_Text
  \/ Return

Spec == Init /\ [][Next]_vars

TypeOK ==
  /\ config \in Configs
  /\ pc \in {"idle", "executing", "reading_json", "reading_text", "done"}
  /\ result.tag \in ClientError \cup {"InvalidInputError", "Ok", "none"}
  /\ executed \in 0..1

\* the transport answers or fails every exchange it was given, and every
\* body read it was asked for comes to its end or fails; the caller keeps
\* polling the future it awaits
Fairness ==
  /\ WF_vars(SendWithResponse_Executed)
  /\ WF_vars(SendWithoutResponse_Executed)
  /\ WF_vars(SendWithResponse_Json)
  /\ WF_vars(SendWithResponse_Text)
  /\ WF_vars(SendWithoutResponse_Text)

FairSpec == Spec /\ Fairness

(***************************************************************************)
(* Config::from_env under every environment                                *)
(***************************************************************************)
InitEnv ==
  /\ env \in Envs
  /\ config = Config_default
  /\ pc = "idle"
  /\ call = NoCall
  /\ base = NoRequest
  /\ applied = NoRequest
  /\ req = NoRequest
  /\ sent = NoRequest
  /\ response = NoResponse
  /\ result = NoResult
  /\ executed = 0
  /\ calls = NoCalls
  /\ listed = NoResult
  /\ chain = <<>>

\* the program builds its configuration from the environment
from_env ==
  /\ pc = "idle"
  /\ config' = Config_from_env(env)
  /\ pc' = "configured"
  /\ UNCHANGED <<call, base, applied, req, sent, response, result, executed, env, calls, listed, chain>>

NextEnv == from_env

SpecEnv == InitEnv /\ [][NextEnv]_vars

(***************************************************************************)
(* The list endpoints that sort: src/evaluation.rs, src/job.rs             *)
(***************************************************************************)
\* Ord for u64
u64_cmp(x, y) ==
  IF x = y THEN 0
  ELSE IF \/ x[1] < y[1]
          \/ (x[1] = y[1] /\ x[2] < y[2])
          \/ (x[1] = y[1] /\ x[2] = y[2] /\ x[3] < y[3]) THEN -1
  ELSE 1

\* the bytes of the ids of the listed elements
Bytes(id) ==
  CASE id = "B" -> <<66>>
    [] id = "a" -> <<97>>
    [] id = "ab" -> <<97, 98>>
    [] id = "b" -> <<98>>

\* Ord for sequences of bytes: by the first byte that differs, a prefix first
RECURSIVE bytes_cmp(_, _)
bytes_cmp(x, y) ==
  IF x = <<>> /\ y = <<>> THEN 0
  ELSE IF x = <<>> THEN -1
  ELSE IF y = <<>> THEN 1
  ELSE IF Head(x) < Head(y) THEN -1
  ELSE IF Head(x) > Head(y) THEN 1
  ELSE bytes_cmp(Tail(x), Tail(y))

\* Ord for String
String_cmp(x, y) == bytes_cmp(Bytes(x), Bytes(y))

\* variant: the two arguments of the comparison are taken in their own order
by_create_index_ascending(a, b) == u64_cmp(a.create_index, b.create_index)

\* |a, b| b.create_index.cmp(&a.create_index)
by_create_index_descending(a, b) == u64_cmp(b.create_index, a.create_index)

\* |a, b| a.id.cmp(&b.id)
by_id_ascending(a, b) == String_cmp(a.id, b.id)

Front(s) == SubSeq(s, 1, Len(s) - 1)

\* slice::sort_by with each of the two comparisons: a stable sort, here by
\* insertion of each element behind the elements that are not after it
RECURSIVE insert_by_create_index(_, _)
insert_by_create_index(s, x) ==
  IF s = <<>> THEN <<x>>
  ELSE IF by_create_index_descending(s[Len(s)], x) = 1
    THEN Append(insert_by_create_index(Front(s), x), s[Len(s)])
  ELSE Append(s, x)

RECURSIVE sort_by_create_index(_)
sort_by_create_index(list) ==
  IF list = <<>> THEN <<>>
  ELSE insert_by_create_index(sort_by_create_index(Front(list)), list[Len(list)])

RECURSIVE insert_by_id(_, _)
insert_by_id(s, x) ==
  IF s = <<>> THEN <<x>>
  ELSE IF by_id_ascending(s[Len(s)], x) = 1
    THEN Append(insert_by_id(Front(s), x), s[Len(s)])
  ELSE Append(s, x)

RECURSIVE sort_by_id(_)
sort_by_id(list) ==
  IF list = <<>> THEN <<>>
  ELSE insert_by_id(sort_by_id(Front(list)), list[Len(list)])

\* the elements a server lists, by the two fields the endpoints sort on
ListItems ==
  { [id |-> "a", create_index |-> U64(1)],
    [id |-> "b", create_index |-> U64(1)],
    [id |-> "B", create_index |-> U64(2)],
    [id |-> "ab", create_index |-> U64_MAX] }

Lists == UNION {[1..n -> ListItems] : n \in 0..MaxList}

\* what send_with_response::<Vec<T>> returns to a list endpoint
ListDispatchResults ==
  {Ok(l) : l \in Lists}
    \cup {RequestCreationError("builder error: relative URL without a base"),
          DeserializationError("error decoding response body: invalid type"),
          ServerError(500, "job not found"), NetworkError("connection refused")}

SortingEndpoints ==
  {"evaluations_list", "evaluation_allocations_list", "job_list", "job_list_allocations",
   "job_list_deployments", "job_list_evaluations"}

InitList ==
  /\ config = Config_default
  /\ pc = "dispatched"
  /\ call \in {[NoCall EXCEPT !.endpoint = e, !.send = "with"] : e \in SortingEndpoints}
  /\ listed \in ListDispatchResults
  /\ chain = <<>>
  /\ base = NoRequest
  /\ applied = NoRequest
  /\ req = NoRequest
  /\ sent = NoRequest
  /\ response = NoResponse
  /\ result = NoResult
  /\ executed = 0
  /\ env = NoEnv
  /\ calls = NoCalls

\* send_with_response(req).await? followed by the sort and Ok(list)
ListReturn(endpoint, sorted) ==
  /\ pc = "dispatched"
  /\ call.endpoint = endpoint
  /\ result' = IF listed.tag = "Ok" THEN Ok(sorted) ELSE listed
  /\ pc' = "done"
  /\ UNCHANGED <<config, call, base, applied, req, sent, response, executed, env, calls,
                 listed, chain>>

\* the list the endpoint sorts
Listed == IF listed.tag = "Ok" THEN listed.value[1] ELSE <<>>

evaluations_list == ListReturn("evaluations_list", sort_by_create_index(Listed))

evaluation_allocations_list ==
  ListReturn("evaluation_allocations_list", sort_by_create_index(Listed))

job_list == ListReturn("job_list", sort_by_id(Listed))

job_list_allocations == ListReturn("job_list_allocations", sort_by_create_index(Listed))

job_list_deployments == ListReturn("job_list_deployments", sort_by_create_index(Listed))

job_list_evaluations == ListReturn("job_list_evaluations", sort_by_create_index(Listed))

NextList ==
  \/ evaluations_list
  \/ evaluation_allocations_list
  \/ job_list
  \/ job_list_allocations
  \/ job_list_deployments
  \/ job_list_evaluations

SpecList == InitList /\ [][NextList]_vars

(***************************************************************************)
(* The numeric and boolean options at the ends of their types              *)
(***************************************************************************)
FmtValuesU64 ==
  {U64(0), U64(9), U64(10), U64(42), U64(999999999), U64(1000000000), U64(2147483647),
   <<0, 4, 294967296>>, <<1, 0, 0>>, U64_MAX}

FmtValuesI32 == {0, -1, 10, -10, 2147483647, -2147483647 - 1}

FmtOptions ==
  { [QueryOptions_new EXCEPT !.allow_stale = a, !.wait_index = w, !.wait_time = t,
                             !.per_page = p, !.reverse = r] :
      a \in OptSet(BOOLEAN), w \in OptSet(FmtValuesU64), t \in OptSet({U64(5), U64_MAX}),
      p \in OptSet(FmtValuesI32), r \in OptSet(BOOLEAN) }

InitFmt ==
  /\ config = Config_default
  /\ pc = "idle"
  /\ call \in {[NoCall EXCEPT !.kind = "query", !.opts = Some(o)] : o \in FmtOptions}
  /\ base = NoRequest
  /\ applied = NoRequest
  /\ req = NoRequest
  /\ sent = NoRequest
  /\ response = NoResponse
  /\ result = NoResult
  /\ executed = 0
  /\ env = NoEnv
  /\ calls = NoCalls
  /\ listed = NoResult
  /\ chain = <<>>

\* a request is built and the options of the call are applied to it
apply_query_options ==
  /\ pc = "idle"
  /\ LET b == build_request(config, "GET", Path("/v1/namespaces", <<>>))
     IN /\ base' = b
        /\ applied' = set_request_query_options(b, call.opts[1], <<>>, <<>>)
  /\ pc' = "applied"
  /\ UNCHANGED <<config, call, req, sent, response, result, executed, env, calls, listed, chain>>

NextFmt == apply_query_options

SpecFmt == InitFmt /\ [][NextFmt]_vars

(***************************************************************************)
(* src/option.rs: the builder methods of QueryOptions and WriteOptions     *)
(***************************************************************************)
\* the longest chain of builder calls made on one options value
MaxChain == 3

\* the caller starts from QueryOptions::new() or WriteOptions::new()
InitBuild ==
  /\ config = Config_default
  /\ pc = "building"
  /\ call \in {[NoCall EXCEPT !.kind = "query", !.opts = Some(QueryOptions_new)],
               [NoCall EXCEPT !.kind = "write", !.opts = Some(WriteOptions_new)]}
  /\ base = NoRequest
  /\ applied = NoRequest
  /\ req = NoRequest
  /\ sent = NoRequest
  /\ response = NoResponse
  /\ result = NoResult
  /\ executed = 0
  /\ env = NoEnv
  /\ calls = NoCalls
  /\ listed = NoResult
  /\ chain = <<>>

\* one builder call: the method takes the value by move and returns self
\* after its assignment; chain is the caller's sequence of calls, method
\* name and argument
Built(kind, method, arg, self) ==
  /\ pc = "building"
  /\ call.kind = kind
  /\ Len(chain) < MaxChain
  /\ call' = [call EXCEPT !.opts = Some(self)]
  /\ chain' = Append(chain, <<method, arg>>)
  /\ UNCHANGED <<config, pc, base, applied, req, sent, response, result, executed, env, calls,
                 listed>>

QueryOptions_with_region ==
  \E region \in {"eu-west", "us-east"} :
    Built("query", "with_region", region, [call.opts[1] EXCEPT !.region = Some(region)])

QueryOptions_with_namespace ==
  \E namespace \in {"prod"} :
    Built("query", "with_namespace", namespace, [call.opts[1] EXCEPT !.namespace = Some(namespace)])

QueryOptions_with_allow_stale ==
  \E allow_stale \in BOOLEAN :
    Built("query", "with_allow_stale", allow_stale, [call.opts[1] EXCEPT !.allow_stale = Some(allow_stale)])

QueryOptions_with_wait_index ==
  \E wait_index \in {U64(42)} :
    Built("query", "with_wait_index", wait_index, [call.opts[1] EXCEPT !.wait_index = Some(wait_index)])

\* variant: with_wait_time stores its argument in the field of with_wait_index
QueryOptions_with_wait_time_as_wait_index ==
  \E wait_time \in {U64(5)} :
    Built("query", "with_wait_time", wait_time,
          [call.opts[1] EXCEPT !.wait_index = Some(wait_time)])

QueryOptions_with_wait_time ==
  \E wait_time \in {U64(5)} :
    Built("query", "with_wait_time", wait_time, [call.opts[1] EXCEPT !.wait_time = Some(wait_time)])

QueryOptions_with_prefix ==
  \E prefix \in {"a b"} :
    Built("query", "with_prefix", prefix, [call.opts[1] EXCEPT !.prefix = Some(prefix)])

QueryOptions_with_params ==
  \E params \in ParamMaps :
    Built("query", "with_params", params, [call.opts[1] EXCEPT !.params = Some(params)])

QueryOptions_with_headers ==
  \E headers \in {("X-Custom" :> "1")} :
    Built("query", "with_headers", headers, [call.opts[1] EXCEPT !.headers = Some(headers)])

QueryOptions_with_auth_token ==
  \E auth_token \in {"override"} :
    Built("query", "with_auth_token", auth_token, [call.opts[1] EXCEPT !.auth_token = Some(auth_token)])

QueryOptions_with_filter ==
  \E filter \in {"Status == \"running\""} :
    Built("query", "with_filter", filter, [call.opts[1] EXCEPT !.filter = Some(filter)])

QueryOptions_with_per_page ==
  \E per_page \in {10, -1} :
    Built("query", "with_per_page", per_page, [call.opts[1] EXCEPT !.per_page = Some(per_page)])

QueryOptions_with_next_token ==
  \E next_token \in {"tok"} :
    Built("query", "with_next_token", next_token, [call.opts[1] EXCEPT !.next_token = Some(next_token)])

QueryOptions_with_reverse ==
  \E reverse \in {TRUE} :
    Built("query", "with_reverse", reverse, [call.opts[1] EXCEPT !.reverse = Some(reverse)])

WriteOptions_with_region ==
  \E region \in {"eu-west", "us-east"} :
    Built("write", "with_region", region, [call.opts[1] EXCEPT !.region = Some(region)])

WriteOptions_with_namespace ==
  \E namespace \in {"prod"} :
    Built("write", "with_namespace", namespace, [call.opts[1] EXCEPT !.namespace = Some(namespace)])

WriteOptions_with_auth_token ==
  \E auth_token \in {"override"} :
    Built("write", "with_auth_token", auth_token, [call.opts[1] EXCEPT !.auth_token = Some(auth_token)])

WriteOptions_with_headers ==
  \E headers \in {("X-Custom" :> "1")} :
    Built("write", "with_headers", headers, [call.opts[1] EXCEPT !.headers = Some(headers)])

WriteOptions_with_idempotency_token ==
  \E token \in {"idem-1", "idem-2"} :
    Built("write", "with_idempotency_token", token, [call.opts[1] EXCEPT !.idempotency_token = Some(token)])

NextBuild ==
  \/ QueryOptions_with_region
  \/ QueryOptions_with_namespace
  \/ QueryOptions_with_allow_stale
  \/ QueryOptions_with_wait_index
  \/ QueryOptions_with_wait_time
  \/ QueryOptions_with_prefix
  \/ QueryOptions_with_params
  \/ QueryOptions_with_headers
  \/ QueryOptions_with_auth_token
  \/ QueryOptions_with_filter
  \/ QueryOptions_with_per_page
  \/ QueryOptions_with_next_token
  \/ QueryOptions_with_reverse
  \/ WriteOptions_with_region
  \/ WriteOptions_with_namespace
  \/ WriteOptions_with_auth_token
  \/ WriteOptions_with_headers
  \/ WriteOptions_with_idempotency_token

SpecBuild == InitBuild /\ [][NextBuild]_vars

(***************************************************************************)
(* Concurrent calls on one client                                          *)
(***************************************************************************)
ConcConfigs ==
  { [address |-> "http://localhost:4646", region |-> "global", token |-> None],
    [address |-> "http://localhost:4646", region |-> "eu", token |-> Some("root")] }

\* the endpoint calls made concurrently, with their arguments
ConcArgs ==
  { [endpoint |-> "namespace_get", send |-> "with", T |-> "Namespace", method |-> "GET",
     path |-> Path("/v1/namespace/default", <<>>), kind |-> "query",
     opts |-> QueryOptions_default],
    [endpoint |-> "namespace_get", send |-> "with", T |-> "Namespace", method |-> "GET",
     path |-> Path("/v1/namespace/default", <<>>), kind |-> "query",
     opts |-> [QueryOptions_new EXCEPT !.region = Some("eu-west"),
                                       !.namespace = Some("prod"),
                                       !.auth_token = Some("override")]],
    [endpoint |-> "namespace_delete", send |-> "without", T |-> "Unit", method |-> "DELETE",
     path |-> Path("/v1/namespace/default", <<>>), kind |-> "write",
     opts |-> [WriteOptions_new EXCEPT !.idempotency_token = Some("once")]] }

ConcOutcomes ==
  {o \in TransportOutcomes : (o.ok /\ o.status \in {200, 404}) \/ o.err = "connection refused"}

ConcReads == {r \in BodyReads : ~r.ok \/ r.body \in {BodyNamespace, BodyText}}

\* the request an endpoint method builds from the client it borrows
request_of(cfg, a) ==
  LET b == build_request(cfg, a.method, a.path)
  IN IF a.kind = "query" THEN set_request_query_options(b, a.opts, <<>>, <<>>)
                         ELSE set_request_write_options(b, a.opts, <<>>)

\* variant: the region of the options is kept by the client for later calls
Nomad_after_call_keeping_region(cfg, a) ==
  IF IsSome(a.opts.region) THEN [cfg EXCEPT !.region = a.opts.region[1]] ELSE cfg

\* the client after a method has run on it: every method borrows &self and
\* no field of Nomad or Config is assigned
Nomad_after_call(cfg, a) == cfg

InitConc ==
  /\ config \in ConcConfigs
  /\ calls = NoCalls
  /\ listed = NoResult
  /\ chain = <<>>
  /\ pc = "idle"
  /\ call = NoCall
  /\ base = NoRequest
  /\ applied = NoRequest
  /\ req = NoRequest
  /\ sent = NoRequest
  /\ response = NoResponse
  /\ result = NoResult
  /\ executed = 0
  /\ env = NoEnv

SoloVars ==
  <<pc, call, base, applied, req, sent, response, result, executed, env, listed, chain>>

\* call c is polled for the first time: the endpoint method builds its
\* request and the send function hands it to the transport
Conc_Issue(c) ==
  /\ calls[c].pc = "idle"
  /\ \E a \in ConcArgs :
       LET r == request_of(config, a)
           st == IF a.send = "with" THEN send_with_response_build(r)
                                    ELSE send_without_response_build(r)
       IN /\ calls' = [calls EXCEPT ![c] =
                         [pc |-> st.pc, args |-> Some(a),
                          sent |-> IF st.executed = 1 THEN execute_request(r) ELSE NoRequest,
                          response |-> NoResponse, result |-> st.result]]
          /\ config' = Nomad_after_call(config, a)
  /\ UNCHANGED SoloVars

\* the transport answers or fails the exchange of call c
Conc_Executed(c) ==
  /\ calls[c].pc = "executing"
  /\ \E outcome \in ConcOutcomes :
       LET st == IF calls[c].args[1].send = "with" THEN send_with_response_executed(outcome)
                                                   ELSE send_without_response_executed(outcome)
       IN calls' = [calls EXCEPT ![c].pc = st.pc, ![c].result = st.result,
                                 ![c].response =
                                   [NoResponse EXCEPT !.received = outcome.ok,
                                                      !.status = outcome.status,
                                                      !.failed = IF outcome.ok
                                                                   THEN None
                                                                   ELSE Some(outcome.err)]]
  /\ UNCHANGED <<config, SoloVars>>

\* the body read of call c comes to its end or fails
Conc_Read(c) ==
  /\ calls[c].pc \in {"reading_json", "reading_text"}
  /\ \E read \in ConcReads :
       LET a == calls[c].args[1]
           status == calls[c].response.status
           res == IF calls[c].pc = "reading_json" THEN send_with_response_json(a.T, read)
                  ELSE IF a.send = "with" THEN send_with_response_text(status, read)
                  ELSE send_without_response_text(status, read)
       IN calls' = [calls EXCEPT ![c].pc = "done", ![c].result = res,
                                 ![c].response.read = Some(read),
                                 ![c].response.json = (calls[c].pc = "reading_json")]
  /\ UNCHANGED <<config, SoloVars>>

NextConc ==
  \/ \E c \in CallIds : Conc_Issue(c)
  \/ \E c \in CallIds : Conc_Executed(c)
  \/ \E c \in CallIds : Conc_Read(c)

SpecConc == InitConc /\ [][NextConc]_vars

(***************************************************************************)
(* Properties                                                              *)
(***************************************************************************)
\* a response has arrived for the current call and its status is not 2xx
NonSuccessResponse == response.received /\ ~(response.status \in 200..299)

\* the body of the response was read to its end as text b
BodyWas(b) == IsSome(response.read) /\ response.read[1].ok /\ response.read[1].body = b

\* C1: a non-2xx response with a readable body always ends, in both send
\* functions, as ServerError carrying that status code and that body text,
\* and its body is never handed to JSON deserialization.
C1_NonSuccessIsServerError ==
  NonSuccessResponse =>
    /\ pc # "reading_json"
    /\ ~response.json
    /\ \A b \in Bodies :
         (pc = "done" /\ BodyWas(b)) =>
           /\ result.tag = "ServerError"
           /\ result.code = response.status
           /\ result.text = b

C1_Witness ==
  /\ pc = "done"
  /\ call.send = "with"
  /\ response.status = 404
  /\ BodyWas(BodyText)
  /\ result = ServerError(404, "job not found")

\* the bodies that match the schema of each response type
MatchingBodies(T) ==
  CASE T = "Namespace" -> {BodyNamespace}
    [] T = "Evaluation" -> {BodyEvaluation}
    [] T = "VecString" -> {BodyRegions}
    [] T = "JobPlanResponse" -> {BodyJobPlan}
    [] T = "JobDeregisterResponse" -> {BodyJobDeregister}
    [] OTHER -> {}

\* C2: in send_with_response a 2xx response whose body does not match the
\* expected type ends as DeserializationError, never Ok or ServerError.
C2_SchemaMismatchIsDeserializationError ==
  \A b \in Bodies \ MatchingBodies(call.T) :
    (pc = "done" /\ call.send = "with" /\ response.received
       /\ response.status \in 200..299 /\ BodyWas(b))
      => result.tag = "DeserializationError"

C2_Witness ==
  /\ pc = "done"
  /\ call.endpoint = "namespace_get"
  /\ response.status = 200
  /\ BodyWas(BodyNamespaceNoName)
  /\ result.tag = "DeserializationError"

\* the request handed to the send function could not be finalized
BuildFailed == req # NoRequest /\ ~req.ok

\* C10: when req.build() fails both send functions return
\* RequestCreationError and the transport is not executed for that call.
C10_BuildFailureNeverExecutes ==
  BuildFailed =>
    /\ pc = "done"
    /\ result = RequestCreationError(req.err)
    /\ executed = 0
    /\ ~response.received

C10_Witness ==
  /\ BuildFailed
  /\ call.send = "with"
  /\ ValidUrl(config.address)
  /\ result.tag = "RequestCreationError"
  /\ executed = 0

\* the current call has built its request and applied options of one of the
\* two option types, and the request has not been consumed yet
OptionsApplied == IsSome(call.opts) /\ call.kind \in {"query", "write"}

\* the request of the current call is on its way to the server
Outgoing == pc = "executing"

AuthHeader == "x-nomad-token"

\* C3: with a default token in the config and an auth_token override in the
\* options, the outgoing request carries one X-Nomad-Token value, the override.
C3_OverrideReplacesDefaultToken ==
  (Outgoing /\ call.kind \in {"query", "write"} /\ IsSome(config.token)
     /\ IsSome(call.opts[1].auth_token) /\ ~IsSome(call.opts[1].headers))
    => HeaderValues(req, AuthHeader) = << <<AuthHeader, call.opts[1].auth_token[1]>> >>

\* the last value written for a header, the one that is left when a later
\* write overrides an earlier one
LastHeaderValue(r, name) == HeaderValues(r, name)[Len(HeaderValues(r, name))][2]

\* C4: for both option types, with an auth_token override and a header map
\* entry under X-Nomad-Token, the auth header value in effect on the outgoing
\* request is the override.
C4_OverrideBeatsHeaderMap ==
  (Outgoing /\ call.kind \in {"query", "write"} /\ IsSome(call.opts[1].auth_token)
     /\ IsSome(call.opts[1].headers) /\ "X-Nomad-Token" \in DOMAIN call.opts[1].headers[1])
    => LastHeaderValue(req, AuthHeader) = call.opts[1].auth_token[1]

\* C5: with a region in the options, the value sent under the key region is
\* the option's value and no longer the client's default region.
C5_OptionRegionOverridesDefault ==
  (Outgoing /\ call.kind \in {"query", "write"} /\ IsSome(call.opts[1].region))
    => \A i \in 1..Len(req.query) :
         req.query[i][1] = "region" => req.query[i][2] = call.opts[1].region[1]

\* C6: applying options with every field absent returns the query
\* parameters and headers of build_request's output unchanged.
C6_AllAbsentChangesNothing ==
  (OptionsApplied /\ PresentFields(call.opts[1]) = {})
    => /\ applied.ok = base.ok
       /\ applied.query = base.query
       /\ applied.headers = base.headers

C6_Witness ==
  /\ Outgoing
  /\ call.endpoint = "namespace_delete"
  /\ call.opts = Some(WriteOptions_new)
  /\ IsSome(config.token)
  /\ Len(applied.query) = 1
  /\ Len(applied.headers) = 1

\* the number of entries of a query or header list under one name
Count(seq, name) == Len(SelectSeq(seq, LAMBDA p : p[1] = name))

\* the fields that are sent as a query parameter of the same name
NamedQueryFields(kind) ==
  IF kind = "query"
    THEN {"region", "namespace", "allow_stale", "wait_index", "wait_time", "prefix", "filter",
          "per_page", "next_token", "reverse"}
    ELSE {"region", "namespace", "idempotency_token"}

\* the entries of the generic maps of an options value
ParamKeys(o) == IF "params" \in DOMAIN o /\ IsSome(o.params) THEN DOMAIN o.params[1] ELSE {}
HeaderKeys(o) == IF IsSome(o.headers) THEN DOMAIN o.headers[1] ELSE {}

Present(o, f) == IF IsSome(o[f]) THEN 1 ELSE 0

\* C7: each present field adds exactly one query parameter or header under
\* its own name and each absent field adds nothing, whatever the other
\* fields are.
C7_OnePairPerPresentField ==
  (OptionsApplied /\ applied.ok) =>
    LET o == call.opts[1]
        named == NamedQueryFields(call.kind)
    IN /\ \A f \in named :
            Count(applied.query, f)
              = Count(base.query, f) + Present(o, f) + (IF f \in ParamKeys(o) THEN 1 ELSE 0)
       /\ Count(applied.headers, AuthHeader)
            = Count(base.headers, AuthHeader) + Present(o, "auth_token")
                + Cardinality({k \in HeaderKeys(o) : HeaderNameOf(k) = AuthHeader})
       /\ Len(applied.query)
            = Len(base.query) + Cardinality(PresentFields(o) \cap named)
                + Cardinality(ParamKeys(o))
       /\ Len(applied.headers)
            = Len(base.headers) + Present(o, "auth_token") + Cardinality(HeaderKeys(o))

C7_Witness ==
  /\ Outgoing
  /\ call.kind = "query"
  /\ PresentFields(call.opts[1]) = {"region", "auth_token", "reverse"}
  /\ IsSome(config.token)
  /\ Count(applied.query, "region") = 2
  /\ Count(applied.query, "reverse") = 1
  /\ Count(applied.headers, AuthHeader) = 2

Keys(q) == [i \in 1..Len(q) |-> q[i][1]]

KeyIfPresent(o, f) == IF IsSome(o[f]) THEN <<f>> ELSE <<>>

TransportFailed == IsSome(response.failed)

\* C11: when the transport fails the exchange, both send functions end at
\* once with NetworkError carrying the transport's message: no status is
\* looked at, and no body is read or deserialized.
C11_TransportFailureIsNetworkError ==
  TransportFailed =>
    /\ pc = "done"
    /\ result = NetworkError(response.failed[1])
    /\ ~response.received
    /\ response.read = None
    /\ ~response.json

C11_Witness ==
  /\ pc = "done"
  /\ call.send = "without"
  /\ response.failed = Some("connection refused")
  /\ result = NetworkError("connection refused")

\* a send function has been entered by the current call
InSend == call.send \in {"with", "without"}

\* the number of times the current call has handed its request to the
\* transport, as its position and its result require it
C12_ExecutedOnce ==
  InSend =>
    /\ executed <= 1
    /\ pc \in {"executing", "reading_json", "reading_text"} => executed = 1
    /\ pc = "done" => executed = (IF result.tag = "RequestCreationError" THEN 0 ELSE 1)

\* no step of a call after its send function was entered executes again
C12_NoResend == (InSend /\ pc' # "idle") => executed' = executed

\* C12: a call of send_with_response or send_without_response executes the
\* transport at most once, exactly once when the request builds, and after
\* a network error, a non-2xx status or a deserialization error the request
\* is not sent again.
C12_AtMostOneExecution == [](C12_ExecutedOnce) /\ [][C12_NoResend]_vars

C12_Witness ==
  /\ pc = "done"
  /\ call.send = "with"
  /\ result.tag = "DeserializationError"
  /\ executed = 1

\* the value of type T that a matching body stands for
DeserializedAs(T, b) ==
  CASE T = "Namespace" /\ b = BodyNamespace ->
         ("Name" :> "prod") @@ ("Description" :> "production")
    [] T = "VecString" /\ b = BodyRegions -> <<"global", "eu">>
    [] T = "Evaluation" /\ b = BodyEvaluation -> EvaluationFields
    [] T = "JobPlanResponse" /\ b = BodyJobPlan -> JobPlanFields
    [] T = "JobDeregisterResponse" /\ b = BodyJobDeregister -> JobDeregisterFields

\* the four conditions of success of send_with_response, as the finished
\* call shows them
C13_AllSucceeded ==
  /\ executed = 1
  /\ response.received
  /\ response.status \in 200..299
  /\ \E b \in MatchingBodies(call.T) : BodyWas(b)

\* C13: send_with_response returns Ok(value) exactly when the request
\* built, the transport exchange succeeded, the status is 2xx and the body
\* deserializes into T; the value is the deserialized body; in every other
\* case the result is an error.
C13_OkIffAllSucceeded ==
  (pc = "done" /\ call.send = "with") =>
    /\ (result.tag = "Ok") = C13_AllSucceeded
    /\ result.tag = "Ok"
         => result.value = Some(DeserializedAs(call.T, response.read[1].body))
    /\ result.tag # "Ok" => result.tag \in ClientError

C13_Witness ==
  /\ pc = "done"
  /\ call.endpoint = "evaluation_get"
  /\ response.status = 200
  /\ BodyWas(BodyEvaluation)
  /\ result = Ok(EvaluationFields)

\* C14: send_without_response returns Ok(()) for every 2xx response
\* whatever its body: the body is not read on the success path and cannot
\* make the result an error.
C14_SuccessDiscardsBody ==
  (call.send = "without" /\ response.received /\ response.status \in 200..299) =>
    /\ pc = "done"
    /\ result = Ok(Unit)
    /\ response.read = None
    /\ ~response.json

C14_Witness ==
  /\ pc = "done"
  /\ call.endpoint = "namespace_create"
  /\ response.received
  /\ response.status = 204
  /\ response.read = None
  /\ result = Ok(Unit)

\* the body read of the current call failed before the body's end
ReadFailed == IsSome(response.read) /\ ~response.read[1].ok

\* C15: when the status is not 2xx and reading the body as text fails, both
\* send functions return NetworkError carrying the read error's message,
\* not ServerError.
C15_FailedTextReadIsNetworkError ==
  (pc = "done" /\ NonSuccessResponse /\ ReadFailed) =>
    result = NetworkError(response.read[1].err)

C15_Witness ==
  /\ pc = "done"
  /\ call.send = "without"
  /\ response.status = 500
  /\ ReadFailed
  /\ result = NetworkError("error decoding response body")

\* C16: every error an endpoint method returns to its caller is one of the
\* four kinds of ClientError: request construction, response
\* deserialization, remote error with status code and body text, or
\* network failure.
C16_FourWayTaxonomy == pc = "done" => result.tag \in {"Ok"} \cup ClientError

UserAgentHeader == "user-agent"

\* the keys of the options' header map that name the user-agent header
UserAgentKeys ==
  IF OptionsApplied /\ IsSome(call.opts[1].headers)
    THEN {k \in DOMAIN call.opts[1].headers[1] : HeaderNameOf(k) = UserAgentHeader}
    ELSE {}

\* C19 as stated: every request sent carries the product identifier
\* nomad-rs-api/0.0.1-alpha.1 as its user-agent header, for every endpoint
\* and every value of the options, a present header map included.
C19_UserAgentIsProductIdentifier ==
  Outgoing => HeaderValues(sent, UserAgentHeader) = << <<UserAgentHeader, USER_AGENT>> >>

\* C19, amended: a request sent carries the product identifier as its only
\* user-agent value when the options' header map has no entry named
\* user-agent; when the map has such entries the request carries their
\* values and not the product identifier.
C19_UserAgentUnlessInHeaderMap ==
  Outgoing =>
    LET values == HeaderValues(sent, UserAgentHeader)
    IN IF UserAgentKeys = {}
         THEN values = << <<UserAgentHeader, USER_AGENT>> >>
         ELSE /\ Len(values) = Cardinality(UserAgentKeys)
              /\ \A i \in 1..Len(values) :
                   \E k \in UserAgentKeys : values[i][2] = call.opts[1].headers[1][k]

C19_Witness ==
  /\ Outgoing
  /\ call.endpoint = "namespace_get"
  /\ UserAgentKeys = {"User-Agent"}
  /\ HeaderValues(sent, UserAgentHeader) = << <<UserAgentHeader, "custom-agent/1.0">> >>

\* a variable of the environment is set, whatever its bytes
IsSet(name) == env[name].set

\* C20 as stated: from_env gives each field the value of its variable when
\* the variable is set and the default otherwise.
C20_FromEnvTakesEverySetVariable ==
  pc = "configured" =>
    /\ config.address = IF IsSet(NOMAD_ENV_VAR_ADDRESS) THEN env[NOMAD_ENV_VAR_ADDRESS].value
                                                        ELSE "http://127.0.0.1:4646"
    /\ config.region = IF IsSet(NOMAD_ENV_VAR_REGION) THEN env[NOMAD_ENV_VAR_REGION].value
                                                      ELSE "global"
    /\ config.token = IF IsSet(NOMAD_ENV_VAR_TOKEN) THEN Some(env[NOMAD_ENV_VAR_TOKEN].value)
                                                    ELSE None

\* a variable of the environment is set to valid Unicode
IsSetToString(name) == env[name].set /\ env[name].unicode

\* C20, amended: from_env gives each of address, region and token the value
\* of its own variable when that variable is set to valid Unicode, and the
\* default (http://127.0.0.1:4646, global, no token) when it is unset or
\* not valid Unicode; no field depends on another field's variable.
C20_FromEnvIndependentFields ==
  pc = "configured" =>
    /\ config.address
         = IF IsSetToString(NOMAD_ENV_VAR_ADDRESS) THEN env[NOMAD_ENV_VAR_ADDRESS].value
                                                   ELSE "http://127.0.0.1:4646"
    /\ config.region
         = IF IsSetToString(NOMAD_ENV_VAR_REGION) THEN env[NOMAD_ENV_VAR_REGION].value
                                                  ELSE "global"
    /\ config.token
         = IF IsSetToString(NOMAD_ENV_VAR_TOKEN) THEN Some(env[NOMAD_ENV_VAR_TOKEN].value)
                                                 ELSE None

C20_Witness ==
  /\ pc = "configured"
  /\ env[NOMAD_ENV_VAR_ADDRESS] = Unset
  /\ env[NOMAD_ENV_VAR_REGION] = Unicode("eu")
  /\ env[NOMAD_ENV_VAR_TOKEN] = NotUnicode
  /\ config = [address |-> "http://127.0.0.1:4646", region |-> "eu", token |-> None]

\* the current call waits for the transport or for a body read
InFlight == InSend /\ pc \in {"executing", "reading_json", "reading_text"}

\* the current call has returned: success, or one explicit ClientError
Returned == pc = "done" /\ result.tag \in {"Ok"} \cup ClientError

\* a call that has its result keeps it, and no step of a call starts the
\* exchange again
C18_OneResult ==
  /\ (InSend /\ pc = "done" /\ pc' # "idle") => (pc' = "done" /\ result' = result)
  /\ (InSend /\ pc # "idle") => pc' # "executing"

\* C18: when the transport answers or fails the exchange and the body
\* read, every call of send_with_response or send_without_response
\* eventually returns one result, Ok or one explicit ClientError, and no
\* failure is absorbed by another attempt.
C18_EveryCallReturns ==
  /\ InFlight ~> Returned
  /\ [](InSend /\ pc = "done" => Returned)
  /\ [][C18_OneResult]_vars

C18_Witness ==
  /\ pc = "done"
  /\ call.send = "with"
  /\ TransportFailed
  /\ executed = 1
  /\ Returned

\* the query string that the arguments of a call ask for on a client of
\* configuration cfg, when the call is the only one
SoloQueryString(cfg, a) ==
  "region=" \o cfg.region
    \o (IF IsSome(a.opts.region) THEN "&region=" \o a.opts.region[1] ELSE "")
    \o (IF IsSome(a.opts.namespace) THEN "&namespace=" \o a.opts.namespace[1] ELSE "")
    \o (IF a.kind = "write" /\ IsSome(a.opts.idempotency_token)
          THEN "&idempotency_token=" \o a.opts.idempotency_token[1] ELSE "")

\* the headers of that request
SoloHeaders(cfg, a) ==
  (IF IsSome(cfg.token) THEN << <<AuthHeader, cfg.token[1]>> >> ELSE <<>>)
    \o (IF IsSome(a.opts.auth_token) THEN << <<AuthHeader, a.opts.auth_token[1]>> >> ELSE <<>>)
    \o << <<UserAgentHeader, USER_AGENT>> >>

\* the result that the response given to a call is classified as, when the
\* call is the only one
SoloResult(a, resp) ==
  IF IsSome(resp.failed) THEN NetworkError(resp.failed[1])
  ELSE IF resp.status \in 200..299
    THEN IF a.send = "without" THEN Ok(Unit)
         ELSE IF resp.read[1].ok /\ resp.read[1].body \in MatchingBodies(a.T)
           THEN Ok(DeserializedAs(a.T, resp.read[1].body))
         ELSE IF resp.read[1].ok
           THEN DeserializationError("error decoding response body: expected value")
         ELSE DeserializationError(resp.read[1].err)
  ELSE IF resp.read[1].ok THEN ServerError(resp.status, resp.read[1].body)
  ELSE NetworkError(resp.read[1].err)

\* every call in flight sent the request of its own arguments, and every
\* finished call has the result of its own response
C17_AsIfAlone ==
  \A c \in CallIds :
    LET k == calls[c]
    IN /\ k.pc \in {"executing", "reading_json", "reading_text", "done"} =>
            /\ k.sent.ok
            /\ k.sent.method = k.args[1].method
            /\ k.sent.path = k.args[1].path.path
            /\ QueryString(k.sent.query) = SoloQueryString(config, k.args[1])
            /\ k.sent.headers = SoloHeaders(config, k.args[1])
       /\ k.pc = "done" => k.result = SoloResult(k.args[1], k.response)

\* a step is a step of one call: it leaves the other calls and the
\* client's Config as they were
C17_NoSharedWrites ==
  /\ config' = config
  /\ \A c \in CallIds :
       calls'[c] # calls[c] => \A d \in CallIds \ {c} : calls'[d] = calls[d]

\* C17: in every interleaving of the calls made concurrently on one client,
\* each call's outgoing request (path, query, headers) and its result are
\* those of the call alone with the same arguments and the same response;
\* no call writes what another call reads, and no call modifies the Config.
C17_ConcurrentCallsIndependent == [](C17_AsIfAlone) /\ [][C17_NoSharedWrites]_vars

C17_Witness ==
  /\ calls[1].pc = "executing"
  /\ IsSome(calls[1].args[1].opts.region)
  /\ calls[2].pc = "done"
  /\ calls[2].args[1].opts = QueryOptions_default
  /\ config.region = "global"
  /\ QueryString(calls[2].sent.query) = "region=global"
  /\ QueryString(calls[1].sent.query) = "region=global&region=eu-west&namespace=prod"
  /\ calls[2].result.tag = "Ok"

\* the outcome of execute() that the current call has seen
SeenOutcome ==
  [ok |-> response.received, status |-> response.status,
   err |-> IF TransportFailed THEN response.failed[1] ELSE ""]

\* C21: on everything decided before the 2xx branch the two send functions
\* agree: for the same build result, transport result, non-2xx status and
\* body read, each returns what the other returns, variant and payload.
C21_SendFunctionsAgreeBeforeSuccess ==
  InSend =>
    /\ BuildFailed =>
         /\ result = send_with_response_build(req).result
         /\ result = send_without_response_build(req).result
    /\ TransportFailed =>
         /\ result = send_with_response_executed(SeenOutcome).result
         /\ result = send_without_response_executed(SeenOutcome).result
    /\ NonSuccessResponse =>
         /\ send_with_response_executed(SeenOutcome)
              = send_without_response_executed(SeenOutcome)
         /\ pc = "done" =>
              /\ result = send_with_response_text(response.status, response.read[1])
              /\ result = send_without_response_text(response.status, response.read[1])

C21_Witness ==
  /\ pc = "done"
  /\ call.send = "without"
  /\ response.status = 404
  /\ BodyWas("")
  /\ result = ServerError(404, "")

\* what a 2xx response with a given body read is classified as, whatever
\* its code
ResultOfSuccess(send, T, read) ==
  IF send = "without" THEN Ok(Unit)
  ELSE IF read.ok /\ read.body \in MatchingBodies(T) THEN Ok(DeserializedAs(T, read.body))
  ELSE DeserializationError(response_json(T, read).err)

\* what a non-2xx response with a given body read is classified as, the
\* carried code left out
ResultOfFailure(read) ==
  IF read.ok THEN ServerError(0, read.body) ELSE NetworkError(read.err)

\* C22: the status code decides the result only by being 2xx or not: 2xx
\* codes with the same body give the same result, and non-2xx codes with
\* the same body give ServerError results that differ in the code only.
C22_StatusOnlyThroughSuccessClass ==
  (InSend /\ pc = "done" /\ response.received) =>
    IF response.status \in 200..299
      THEN /\ call.send = "with" => IsSome(response.read)
           /\ result = ResultOfSuccess(call.send, call.T,
                                       IF call.send = "with" THEN response.read[1] ELSE None)
      ELSE /\ IsSome(response.read)
           /\ [result EXCEPT !.code = 0] = ResultOfFailure(response.read[1])
           /\ result.tag = "ServerError" => result.code = response.status

C22_Witness ==
  /\ pc = "done"
  /\ call.send = "with"
  /\ response.status = 299
  /\ BodyWas(BodyRegions)
  /\ call.T = "VecString"
  /\ result.tag = "Ok"

\* C23: when the options' header map supplies a key whose header name is
\* already on the request (written by build_request, or by another map key
\* that differs in letter case only), the outgoing request carries a single
\* value for that header, the last one written.
C23_DuplicateHeaderLastWriteWins ==
  (Outgoing /\ OptionsApplied /\ IsSome(call.opts[1].headers)) =>
    \A k \in DOMAIN call.opts[1].headers[1] :
      Count(req.headers, HeaderNameOf(k)) = 1

\* the multiset of the pairs of a query
QueryBag(q) ==
  [p \in {q[i] : i \in 1..Len(q)} |-> Cardinality({i \in 1..Len(q) : q[i] = p})]

\* the number of pairs of a query equal to one pair
PairCount(q, pair) == Cardinality({i \in 1..Len(q) : q[i] = pair})

\* C24: each entry of the params map of QueryOptions is appended as its own
\* pair key=value; the multiset of pairs is the same for every iteration
\* order of the map; an entry under the key of a named option adds a pair
\* and leaves the named option's pair in place.
C24_ParamsAppendedInAnyOrder ==
  (OptionsApplied /\ call.kind = "query" /\ applied.ok /\ IsSome(call.opts[1].params)) =>
    LET o == call.opts[1]
        map == o.params[1]
    IN /\ \A k \in DOMAIN map :
            /\ PairCount(applied.query, <<k, map[k]>>) = 1
            /\ Count(applied.query, k)
                 = Count(base.query, k) + 1
                     + (IF k \in NamedQueryFields("query") THEN Present(o, k) ELSE 0)
       /\ Len(applied.query)
            = Len(base.query) + Cardinality(PresentFields(o) \cap NamedQueryFields("query"))
                + Cardinality(DOMAIN map)
       /\ \A other \in MapOrders(o.params) :
            QueryBag(set_request_query_options(base, o, other, call.hOrder).query)
              = QueryBag(applied.query)

C24_Witness ==
  /\ Outgoing
  /\ call.kind = "query"
  /\ call.opts[1].namespace = Some("prod")
  /\ call.opts[1].params = Some(("namespace" :> "other") @@ ("k=v&x" :> "a b"))
  /\ call.pOrder = <<"k=v&x", "namespace">>
  /\ PairCount(req.query, <<"namespace", "prod">>) = 1
  /\ PairCount(req.query, <<"namespace", "other">>) = 1

\* the decimal numerals of the numbers at the ends of the types
NumeralOfU64(v) ==
  CASE v = U64(0) -> "0"
    [] v = U64(5) -> "5"
    [] v = U64(9) -> "9"
    [] v = U64(10) -> "10"
    [] v = U64(42) -> "42"
    [] v = U64(999999999) -> "999999999"
    [] v = U64(1000000000) -> "1000000000"
    [] v = U64(2147483647) -> "2147483647"
    [] v = <<0, 4, 294967296>> -> "4294967296"
    [] v = <<1, 0, 0>> -> "1000000000000000000"
    [] v = U64_MAX -> "18446744073709551615"

NumeralOfI32(n) ==
  CASE n = 0 -> "0"
    [] n = -1 -> "-1"
    [] n = 10 -> "10"
    [] n = -10 -> "-10"
    [] n = 2147483647 -> "2147483647"
    [] n = -2147483647 - 1 -> "-2147483648"

\* the one pair sent under the key of a present field has the given value
SentAs(f, value) ==
  /\ Count(applied.query, f) = 1
  /\ PairCount(applied.query, <<f, value>>) = 1

\* C25: allow_stale and reverse are sent as true or false; wait_index,
\* wait_time (u64) and per_page (i32) are sent as their decimal numeral for
\* every value of the type, 0, the maximum and negative per_page included.
C25_CanonicalNumeralsAndBooleans ==
  pc = "applied" =>
    LET o == call.opts[1]
    IN /\ applied.ok
       /\ IsSome(o.allow_stale) =>
            SentAs("allow_stale", IF o.allow_stale[1] THEN "true" ELSE "false")
       /\ IsSome(o.reverse) => SentAs("reverse", IF o.reverse[1] THEN "true" ELSE "false")
       /\ IsSome(o.wait_index) => SentAs("wait_index", NumeralOfU64(o.wait_index[1]))
       /\ IsSome(o.wait_time) => SentAs("wait_time", NumeralOfU64(o.wait_time[1]))
       /\ IsSome(o.per_page) => SentAs("per_page", NumeralOfI32(o.per_page[1]))

C25_Witness ==
  /\ pc = "applied"
  /\ call.opts[1].wait_index = Some(U64_MAX)
  /\ call.opts[1].per_page = Some(-2147483647 - 1)
  /\ call.opts[1].reverse = Some(FALSE)
  /\ SentAs("wait_index", "18446744073709551615")
  /\ SentAs("per_page", "-2147483648")
  /\ SentAs("reverse", "false")

\* the multiset of the elements of a list
ListBag(l) == [x \in {l[i] : i \in 1..Len(l)} |-> Cardinality({i \in 1..Len(l) : l[i] = x})]

\* the numbers 1, 2, 3 for the create_index values of the listed elements,
\* in their order as numbers
IndexRank(v) == CASE v = U64(1) -> 1 [] v = U64(2) -> 2 [] v = U64_MAX -> 3

\* the ids of the listed elements in the order of their bytes
IdRank(id) == CASE id = "B" -> 1 [] id = "a" -> 2 [] id = "ab" -> 3 [] id = "b" -> 4

\* C26: a sorting list endpoint returns a permutation of the list the
\* server sent, in order: create_index descending for evaluations_list,
\* evaluation_allocations_list, job list_allocations, list_deployments and
\* list_evaluations, id ascending for job list; an error of the dispatch is
\* returned unchanged, without a list.
C26_SortedPermutation ==
  (pc = "done" /\ call.endpoint \in SortingEndpoints) =>
    IF listed.tag = "Ok"
      THEN /\ result.tag = "Ok"
           /\ LET l == result.value[1]
              IN /\ ListBag(l) = ListBag(listed.value[1])
                 /\ Len(l) = Len(listed.value[1])
                 /\ \A i, j \in 1..Len(l) :
                      i < j =>
                        IF call.endpoint = "job_list"
                          THEN IdRank(l[i].id) <= IdRank(l[j].id)
                          ELSE IndexRank(l[i].create_index) >= IndexRank(l[j].create_index)
      ELSE result = listed /\ result.value = None

C26_Witness ==
  /\ pc = "done"
  /\ call.endpoint = "job_list_deployments"
  /\ listed = Ok(<< [id |-> "a", create_index |-> U64(1)],
                    [id |-> "ab", create_index |-> U64_MAX],
                    [id |-> "B", create_index |-> U64(2)] >>)
  /\ result = Ok(<< [id |-> "ab", create_index |-> U64_MAX],
                    [id |-> "B", create_index |-> U64(2)],
                    [id |-> "a", create_index |-> U64(1)] >>)

\* C27: applying options only appends to the query: the pairs on the
\* request before the applier runs, those of the endpoint's path and the
\* builder's region, are in the outgoing request unchanged and ahead of the
\* pairs of the options.
C27_OptionsOnlyAppendToQuery ==
  (OptionsApplied /\ applied.ok) =>
    LET before == call.path[1].query \o << <<"region", config.region>> >>
    IN /\ base.query = before
       /\ Len(applied.query) >= Len(before)
       /\ SubSeq(applied.query, 1, Len(before)) = before
       /\ Outgoing =>
            /\ SubSeq(req.query, 1, Len(before)) = before
            /\ SubSeq(sent.query, 1, Len(before)) = before

C27_Witness ==
  /\ Outgoing
  /\ call.endpoint = "job_deregister"
  /\ call.opts[1].region = Some("eu-west")
  /\ call.opts[1].idempotency_token = Some("idem-1")
  /\ config.region = "global"
  /\ QueryString(sent.query)
       = "purge=true&global=false&eval_priority=0&no_shutdown_delay=false"
           \o "&region=global&region=eu-west&idempotency_token=idem-1"

\* the token values another call may carry in place of this call's
OtherTokens == {"root", "s3cr3t", "override"}

\* the tokens the current call was given: the client's and the override
CallTokens ==
  {config.token[i] : i \in DOMAIN config.token}
    \cup {call.opts[1].auth_token[i] : i \in DOMAIN call.opts[1].auth_token}

\* the request on the wire of the call that differs from the current one
\* only in the token values t (client-wide) and u (override)
SentWithTokens(t, u) ==
  LET cfg2 == [config EXCEPT !.token = IF IsSome(@) THEN Some(t) ELSE @]
      opts2 == [call.opts[1] EXCEPT !.auth_token = IF IsSome(@) THEN Some(u) ELSE @]
      b2 == build_request(cfg2, base.method, call.path[1])
      a2 == IF call.kind = "query"
              THEN set_request_query_options(b2, opts2, call.pOrder, call.hOrder)
              ELSE set_request_write_options(b2, opts2, call.hOrder)
      r2 == IF IsSome(req.body) THEN json(a2, req.body[1]) ELSE a2
  IN execute_request(r2)

\* C28: the auth token never leaves the auth header: a call that differs
\* only in the token values goes out with the same path, query and body, and
\* a token of the call is the value of no query pair, is not the body, and is
\* the value of no header but X-Nomad-Token.
C28_TokenOnlyInAuthHeader ==
  (Outgoing /\ OptionsApplied) =>
    /\ \A t \in OtherTokens, u \in OtherTokens :
         LET other == SentWithTokens(t, u)
         IN other.ok =>
              /\ other.method = sent.method
              /\ other.path = sent.path
              /\ other.query = sent.query
              /\ other.body = sent.body
    /\ sent.path = call.path[1].path
    /\ \A i \in 1..Len(sent.query) : sent.query[i][2] \notin CallTokens
    /\ \A i \in DOMAIN sent.body : sent.body[i] \notin CallTokens
    /\ \A i \in 1..Len(sent.headers) :
         sent.headers[i][2] \in CallTokens => sent.headers[i][1] = AuthHeader

C28_Witness ==
  /\ Outgoing
  /\ call.endpoint = "job_plan"
  /\ config.token = Some("root")
  /\ call.opts[1].auth_token = Some("override")
  /\ IsSome(call.opts[1].region)
  /\ IsSome(sent.body)
  /\ HeaderValues(sent, AuthHeader)
       = << <<AuthHeader, "root">>, <<AuthHeader, "override">> >>
  /\ SentWithTokens("s3cr3t", "root").ok
  /\ HeaderValues(SentWithTokens("s3cr3t", "root"), AuthHeader)
       = << <<AuthHeader, "s3cr3t">>, <<AuthHeader, "root">> >>

\* C29: the job plan endpoint given a job without an id returns the error
\* "Job ID must be set" and neither builds nor sends a request; given a job
\* with an id it sends a POST to /v1/job/<id>/plan through send_with_response
\* and returns what the dispatcher classifies.
C29_JobPlanNeedsId ==
  call.endpoint = "job_plan" =>
    IF ~IsSome(call.path)
      THEN /\ pc = "done"
           /\ result = InvalidInputError("Job ID must be set")
           /\ ~InSend
           /\ executed = 0
           /\ base = NoRequest /\ applied = NoRequest /\ req = NoRequest
           /\ sent = NoRequest
           /\ response = NoResponse
      ELSE /\ call.path[1] = Path("/v1/job/web/plan", <<>>)
           /\ call.send = "with"
           /\ call.T = "JobPlanResponse"
           /\ req.ok => (req.method = "POST" /\ req.path = "/v1/job/web/plan")
           /\ Outgoing => (sent.method = "POST" /\ sent.path = "/v1/job/web/plan")
           /\ pc = "done" =>
                result = IF BuildFailed THEN send_with_response_build(req).result
                         ELSE IF TransportFailed THEN NetworkError(response.failed[1])
                         ELSE IF response.status \in 200..299
                           THEN ResultOfSuccess("with", call.T, response.read[1])
                         ELSE [ResultOfFailure(response.read[1]) EXCEPT
                                 !.code = IF @ = 0 /\ response.read[1].ok
                                            THEN response.status ELSE @]

C29_Witness ==
  /\ call.endpoint = "job_plan"
  /\ ~IsSome(call.path)
  /\ pc = "done"
  /\ result.tag = "InvalidInputError"
  /\ result.text = "Job ID must be set"
  /\ executed = 0

C29_WitnessWithId ==
  /\ call.endpoint = "job_plan"
  /\ IsSome(call.path)
  /\ pc = "done"
  /\ result = Ok(JobPlanFields)

\* the field a builder method is named after
FieldOf(method) ==
  CASE method = "with_region" -> "region"
    [] method = "with_namespace" -> "namespace"
    [] method = "with_allow_stale" -> "allow_stale"
    [] method = "with_wait_index" -> "wait_index"
    [] method = "with_wait_time" -> "wait_time"
    [] method = "with_prefix" -> "prefix"
    [] method = "with_params" -> "params"
    [] method = "with_headers" -> "headers"
    [] method = "with_auth_token" -> "auth_token"
    [] method = "with_filter" -> "filter"
    [] method = "with_per_page" -> "per_page"
    [] method = "with_next_token" -> "next_token"
    [] method = "with_reverse" -> "reverse"
    [] method = "with_idempotency_token" -> "idempotency_token"

\* the positions of the chain at which the method of field f was called
CallsOf(f) == {i \in 1..Len(chain) : FieldOf(chain[i][1]) = f}

\* the last element of a nonempty set of positions
LastOf(S) == CHOOSE i \in S : \A j \in S : j <= i

\* the options value a chain of builder calls has produced
C30_FieldsAreLastCalls ==
  pc = "building" =>
    \A f \in DOMAIN call.opts[1] :
      IF CallsOf(f) = {} THEN call.opts[1][f] = None
      ELSE call.opts[1][f] = Some(chain[LastOf(CallsOf(f))][2])

\* one builder call sets the field of its name and no other
C30_OneFieldPerCall ==
  (pc = "building" /\ chain' # chain) =>
    LET f == FieldOf(chain'[Len(chain')][1])
    IN /\ f \in DOMAIN call.opts[1]
       /\ DOMAIN call'.opts[1] = DOMAIN call.opts[1]
       /\ call'.opts[1][f] = Some(chain'[Len(chain')][2])
       /\ \A g \in DOMAIN call.opts[1] \ {f} : call'.opts[1][g] = call.opts[1][g]

\* C30: each with_<field> method of QueryOptions and WriteOptions sets that
\* field to Some of its argument and leaves every other field as it was, so
\* after any chain of builder calls on new() the present fields are those
\* named in the chain, each with the argument of its last call.
C30_BuilderFrame == []C30_FieldsAreLastCalls /\ [][C30_OneFieldPerCall]_vars

C30_Witness ==
  /\ pc = "building"
  /\ call.kind = "query"
  /\ chain = << <<"with_region", "eu-west">>, <<"with_wait_time", U64(5)>>,
                <<"with_region", "us-east">> >>
  /\ call.opts[1]
       = [QueryOptions_new EXCEPT !.region = Some("us-east"), !.wait_time = Some(U64(5))]

C30_WitnessWrite ==
  /\ pc = "building"
  /\ call.kind = "write"
  /\ chain = << <<"with_idempotency_token", "idem-1">>, <<"with_auth_token", "override">>,
                <<"with_idempotency_token", "idem-2">> >>
  /\ call.opts[1]
       = [WriteOptions_new EXCEPT !.idempotency_token = Some("idem-2"),
                                  !.auth_token = Some("override")]

====
